---- MODULE Spec2Model ----
(***************************************************************************)
(* A model of the MCP Path-of-Building server: the parse_pob_code handler  *)
(* with its content cache, the section extractors, the rating classifiers  *)
(* of analyze_build and the suggestion aggregator of suggest_improvements. *)
(*                                                                         *)
(* Strings the code inspects character by character (the raw build code,   *)
(* version strings) are sequences of one-character strings.  Strings the   *)
(* code builds by concatenation (error messages) are sequences of chunks,  *)
(* so that "the message contains m" is a contiguous-subsequence test.      *)
(***************************************************************************)
EXTENDS Integers, Sequences, FiniteSets, TLC

VARIABLES
  buildCache,     \* the LRUCache of build.ts: entries, least recently used first
  now,            \* the clock (Date / performance.now), in ticks
  keystonesData,  \* passive-parser.ts module variable
  response,       \* the response of the last parse_pob_code call
  lastInput,      \* the buildCode of the last parse_pob_code call
  ran,            \* the pipeline stages the last parse_pob_code call executed
  served,         \* history: raw input -> response of its last pipeline run
  arg,            \* argument of the pure function under study
  ret,            \* its result, once applied
  analysed,       \* the last analyze_build call: its build and its analysis
  suggested,      \* the last suggest_improvements call: its input and its output
  remembered,     \* history: the first suggest_improvements call
  called,         \* the last operation on the cache and what it returned
  recency,        \* history: the cached build codes in the order of their last use
  requests,       \* the tool calls in flight: each one's input, position and response
  handledLog      \* history: the parse calls in the order the handler ran them

vars ==
  <<buildCache, now, keystonesData, response, lastInput, ran, served, arg, ret, analysed,
    suggested, remembered, called, recency, requests, handledLog>>

parseVars == <<buildCache, now, keystonesData, response, lastInput, ran, served>>

pureVars == <<arg, ret>>

sessionVars == <<analysed, suggested, remembered>>

cacheVars == <<called, recency>>

requestVars == <<requests, handledLog>>

(***************************************************************************)
(* Optional values (undefined / null / absent section): a sequence of      *)
(* length at most one.                                                     *)
(***************************************************************************)
None == <<>>

Some(v) == <<v>>

IsSome(o) == Len(o) > 0

Get(o) == o[1]

Range(s) == {s[i] : i \in 1..Len(s)}

RECURSIVE SelectSeqIdx(_, _, _)
\* the indices i (in order) of s for which Test(s[i]) holds, as a sequence
SelectSeqIdx(s, Test(_), i) ==
  IF i > Len(s) THEN <<>>
  ELSE (IF Test(s[i]) THEN <<i>> ELSE <<>>) \o SelectSeqIdx(s, Test, i + 1)

\* t occurs in s as a contiguous run (String.prototype.includes on chunks)
Contains(s, t) ==
  \E i \in 0..(Len(s) - Len(t)) : SubSeq(s, i + 1, i + Len(t)) = t

(***************************************************************************)
(* Characters of a raw build code.  "A" stands for any character of the    *)
(* base64 alphabet other than the pad "=", " " for any white space, "!"    *)
(* for any other character.                                                *)
(***************************************************************************)
WhiteSpace == {" "}

Base64Alphabet == {"A", "="}

RECURSIVE TrimLeft(_)
TrimLeft(s) ==
  IF Len(s) > 0 /\ s[1] \in WhiteSpace THEN TrimLeft(Tail(s)) ELSE s

RECURSIVE TrimRight(_)
TrimRight(s) ==
  IF Len(s) > 0 /\ s[Len(s)] \in WhiteSpace
  THEN TrimRight(SubSeq(s, 1, Len(s) - 1))
  ELSE s

\* String.prototype.trim
Trim(s) == TrimRight(TrimLeft(s))

\* /^[A-Za-z0-9+/=]+$/.test(s)
Base64Regex(s) == Len(s) > 0 /\ \A i \in 1..Len(s) : s[i] \in Base64Alphabet

RECURSIVE DataPrefixLen(_)
\* number of data characters before the first pad
DataPrefixLen(s) ==
  IF Len(s) = 0 \/ s[1] = "=" THEN 0 ELSE 1 + DataPrefixLen(Tail(s))

\* Buffer.from(s, "base64").length: six bits per data character, whole bytes
DecodedLength(s) == (DataPrefixLen(s) * 6) \div 8

(***************************************************************************)
(* Errors (utils/error-handler.ts).  A function that can throw returns      *)
(* Return(v) or Throw(e).                                                  *)
(***************************************************************************)
INVALID_BASE64 == "INVALID_BASE64"

DECOMPRESSION_ERROR == "DECOMPRESSION_ERROR"

INVALID_XML == "INVALID_XML"

UNSUPPORTED_VERSION == "UNSUPPORTED_VERSION"

Return(v) == [ok |-> TRUE, val |-> v]

Throw(e) == [ok |-> FALSE, err |-> e]

\* new PoBParsingError(code, message, details): details is a string or undefined
PoBParsingError(code, message, details) ==
  [code |-> code, message |-> message, details |-> details]

\* createErrorResponse: details || ""
createErrorResponse(code, message, details) ==
  [success |-> FALSE,
   build |-> None,
   error |-> Some([code |-> code,
                   message |-> message,
                   details |-> IF IsSome(details) THEN Get(details) ELSE <<>>])]

\* an Error that is no PoBParsingError: [name, message, stack]
Error_(name, message) ==
  [name |-> name, message |-> message, stack |-> Some(<<name, ": ">> \o message)]

\* error instanceof PoBParsingError
IsPoBParsingError(error) == "code" \in DOMAIN error

\* a wrapError that hands an error of another class on to its caller
wrapErrorOfParsingOnly(error) ==
  IF IsPoBParsingError(error)
  THEN createErrorResponse(error.code, error.message, error.details)
  ELSE [success |-> FALSE, build |-> None, error |-> None]

\* wrapError(error, "parse_pob_code"), for an Error object
wrapError(error) ==
  IF IsPoBParsingError(error)
  THEN createErrorResponse(error.code, error.message, error.details)
  ELSE createErrorResponse(INVALID_XML, <<"parse_pob_code: ">> \o error.message, error.stack)

(***************************************************************************)
(* Decoder (utils/base64-decoder.ts, utils/decompressor.ts).  A raw build  *)
(* code is [text, data]: text is its character skeleton, data says what    *)
(* zlib makes of the bytes it encodes (the outcome of inflateSync and of   *)
(* inflateRawSync on them).                                                *)
(***************************************************************************)
\* decodeBase64 without the check of the decoded length
decodeBase64Unchecked(input) ==
  LET t == Trim(input.text) IN
  IF Len(t) = 0
  THEN Throw(PoBParsingError(INVALID_BASE64,
                             <<"Input must be a non-empty base64 string">>, None))
  ELSE IF ~Base64Regex(t)
  THEN Throw(PoBParsingError(INVALID_BASE64,
                             <<"Input contains invalid base64 characters">>, None))
  ELSE Return([length |-> DecodedLength(t), data |-> input.data])

decodeBase64(input) ==
  LET t == Trim(input.text) IN
  IF Len(t) = 0
  THEN Throw(PoBParsingError(INVALID_BASE64,
                             <<"Input must be a non-empty base64 string">>, None))
  ELSE IF ~Base64Regex(t)
  THEN Throw(PoBParsingError(INVALID_BASE64,
                             <<"Input contains invalid base64 characters">>, None))
  ELSE IF DecodedLength(t) = 0
  THEN Throw(PoBParsingError(INVALID_BASE64, <<"Decoded buffer is empty">>, None))
  ELSE Return([length |-> DecodedLength(t), data |-> input.data])

\* zlib.inflateSync(compressed): [ok, msg, out]
inflateSync(compressed) == compressed.data.zlib

\* zlib.inflateRawSync(compressed)
inflateRawSync(compressed) == compressed.data.raw

\* a decompressZlib that returns what inflateSync gave, empty or not
decompressZlibAcceptingEmpty(compressed) ==
  IF compressed.length = 0
  THEN Throw(PoBParsingError(DECOMPRESSION_ERROR, <<"Compressed buffer is empty">>, None))
  ELSE LET r == inflateSync(compressed) IN
       IF ~r.ok
       THEN Throw(PoBParsingError(DECOMPRESSION_ERROR,
                                  <<"Failed to decompress zlib data">>, Some(r.msg)))
       ELSE Return(r.out)

decompressZlib(compressed) ==
  IF compressed.length = 0
  THEN Throw(PoBParsingError(DECOMPRESSION_ERROR, <<"Compressed buffer is empty">>, None))
  ELSE LET r == inflateSync(compressed) IN
       IF ~r.ok
       THEN Throw(PoBParsingError(DECOMPRESSION_ERROR,
                                  <<"Failed to decompress zlib data">>, Some(r.msg)))
       ELSE IF r.out.length = 0
       THEN Throw(PoBParsingError(DECOMPRESSION_ERROR,
                                  <<"Decompressed buffer is empty">>, None))
       ELSE Return(r.out)

\* the error thrown from the inner catch: only zlibError.message is kept
BothFailedError(zlibError) ==
  PoBParsingError(DECOMPRESSION_ERROR,
                  <<"Failed to decompress with both zlib and raw deflate">>,
                  Some(<<"zlib: ">> \o zlibError.message))

decompressWithFallback(compressed) ==
  LET z == decompressZlib(compressed) IN
  IF z.ok THEN z
  ELSE LET r == inflateRawSync(compressed) IN
       IF ~r.ok THEN Throw(BothFailedError(z.err))
       ELSE IF r.out.length = 0 THEN Throw(BothFailedError(z.err))
       ELSE Return(r.out)

(***************************************************************************)
(* Structural parser and version gate (parsers/pob-xml-parser.ts).  A      *)
(* decompressed text is [length, xml]: xml says what XMLParser.parse makes *)
(* of it, [throws, msg, root], root the PathOfBuilding object if any.      *)
(***************************************************************************)
parsePoBXML(buildCode) ==
  LET d == decodeBase64(buildCode) IN
  IF ~d.ok THEN d
  ELSE LET x == decompressWithFallback(d.val) IN
       IF ~x.ok THEN x
       ELSE LET parsed == x.val.xml IN
            IF parsed.throws
            THEN Throw(PoBParsingError(INVALID_XML,
                                       <<"Failed to parse XML structure">>,
                                       Some(parsed.msg)))
            ELSE IF ~IsSome(parsed.root)
            THEN Throw(PoBParsingError(INVALID_XML,
                                       <<"Root element must be <PathOfBuilding>">>, None))
            ELSE Return(Get(parsed.root))

CharCode(c) ==
  CASE c = "." -> 46
    [] c = "0" -> 48 [] c = "1" -> 49 [] c = "2" -> 50 [] c = "3" -> 51
    [] c = "4" -> 52 [] c = "5" -> 53 [] c = "6" -> 54 [] c = "7" -> 55
    [] c = "8" -> 56 [] c = "9" -> 57

RECURSIVE StringLess(_, _)
\* a < b on JavaScript strings: code unit by code unit, a proper prefix first
StringLess(a, b) ==
  IF Len(b) = 0 THEN FALSE
  ELSE IF Len(a) = 0 THEN TRUE
  ELSE IF CharCode(a[1]) < CharCode(b[1]) THEN TRUE
  ELSE IF CharCode(a[1]) > CharCode(b[1]) THEN FALSE
  ELSE StringLess(Tail(a), Tail(b))

minVersion == <<"1", ".", "4", ".", "1", "7", "0">>

RECURSIVE ParseNat(_, _)
\* the number a run of digits denotes, acc being the value read so far
ParseNat(digits, acc) ==
  IF Len(digits) = 0 THEN acc
  ELSE ParseNat(Tail(digits), 10 * acc + (CharCode(digits[1]) - 48))

RECURSIVE SplitDots(_, _)
\* the dot-separated numeric components of a version string
SplitDots(s, part) ==
  IF Len(s) = 0 THEN <<ParseNat(part, 0)>>
  ELSE IF s[1] = "." THEN <<ParseNat(part, 0)>> \o SplitDots(Tail(s), <<>>)
  ELSE SplitDots(Tail(s), Append(part, s[1]))

RECURSIVE ComponentsLess(_, _)
ComponentsLess(a, b) ==
  IF Len(b) = 0 THEN FALSE
  ELSE IF Len(a) = 0 THEN TRUE
  ELSE IF a[1] < b[1] THEN TRUE
  ELSE IF a[1] > b[1] THEN FALSE
  ELSE ComponentsLess(Tail(a), Tail(b))

\* a version gate that compares the numeric components (semantic versions)
VersionBelowMinimumNumeric(version) ==
  ComponentsLess(SplitDots(version, <<>>), SplitDots(minVersion, <<>>))

\* version < minVersion
VersionBelowMinimum(version) == StringLess(version, minVersion)

\* !pobXML.version: undefined or the empty string
VersionMissing(pobXML) == ~IsSome(pobXML.version) \/ Len(Get(pobXML.version)) = 0

\* a gate that only asks for a version to be present
validatePoBVersionOfPresence(pobXML) ==
  IF VersionMissing(pobXML)
  THEN Throw(PoBParsingError(UNSUPPORTED_VERSION, <<"PoB version not specified">>, None))
  ELSE Return(TRUE)

validatePoBVersion(pobXML) ==
  IF VersionMissing(pobXML)
  THEN Throw(PoBParsingError(UNSUPPORTED_VERSION, <<"PoB version not specified">>, None))
  ELSE IF VersionBelowMinimum(Get(pobXML.version))
  THEN Throw(PoBParsingError(UNSUPPORTED_VERSION,
                             <<"PoB version ">> \o Get(pobXML.version)
                               \o <<" is not supported (minimum: ">> \o minVersion
                               \o <<")">>,
                             None))
  ELSE Return(TRUE)

(***************************************************************************)
(* What fast-xml-parser yields for the children of one tag name: nothing,  *)
(* one object, or an array of objects.                                     *)
(***************************************************************************)
NoChild == [isArray |-> FALSE, elems |-> <<>>]

One(e) == [isArray |-> FALSE, elems |-> <<e>>]

Many(es) == [isArray |-> TRUE, elems |-> es]

\* JavaScript truthiness of such a value
Truthy(c) == c.isArray \/ Len(c.elems) > 0

\* Array.isArray(c) ? c : [c], for a truthy c
AsArray(c) == c.elems

(***************************************************************************)
(* Gear extractor (parsers/gear-parser.ts).  An item is [slot, name,       *)
(* baseType, mods]: each text is "" when the item carries none; a mod is   *)
(* the affix text, abstracted to [kind, n, m] (see AffixText).  itemClass, *)
(* implicit, corrupted and influences are copied through and left out.     *)
(***************************************************************************)
GEAR_SLOTS ==
  <<"Weapon1", "Weapon2", "Helmet", "BodyArmour", "Gloves", "Boots", "Amulet",
    "Ring1", "Ring2", "Belt", "Flask1", "Flask2", "Flask3", "Flask4", "Flask5">>

\* item names whose lower-cased text includes "flask"
FlaskNames == {"Divine Life Flask", "Quicksilver Flask"}

createEmptySlot(slot) ==
  [slot |-> slot, itemName |-> "Empty", baseType |-> "", affixes |-> <<>>]

determineSlotType(item) ==
  IF item.slot # "" THEN Some(item.slot)
  ELSE IF item.name = "" THEN None
  ELSE IF item.name \in FlaskNames THEN Some("Flask1")
  ELSE None

\* each mod becomes an affix whose text is the mod's text
parseAffixes(item) == item.mods

parseGearSlot(item) ==
  IF item.name = "" THEN None
  ELSE LET slotType == determineSlotType(item) IN
       IF ~IsSome(slotType) THEN None
       ELSE Some([slot |-> Get(slotType),
                  itemName |-> item.name,
                  baseType |-> item.baseType,
                  affixes |-> parseAffixes(item)])

RECURSIVE MapItems(_)
\* items.forEach: the parsed slots of the items that have one, in order
MapItems(items) ==
  IF Len(items) = 0 THEN <<>>
  ELSE (LET slot == parseGearSlot(items[1]) IN
        IF IsSome(slot) THEN <<Get(slot)>> ELSE <<>>) \o MapItems(Tail(items))

\* gear.find((g) => g.slot === slotType) || createEmptySlot(slotType)
FillSlot(gear, slotType) ==
  LET hits == SelectSeq(gear, LAMBDA g : g.slot = slotType) IN
  IF Len(hits) > 0 THEN hits[1] ELSE createEmptySlot(slotType)

\* a parseGear that keeps every parsed item and appends placeholders for the
\* slot types no item names
parseGearAppending(gearSection) ==
  IF ~IsSome(gearSection) \/ ~Truthy(Get(gearSection).Item)
  THEN [i \in 1..Len(GEAR_SLOTS) |-> createEmptySlot(GEAR_SLOTS[i])]
  ELSE LET gear == MapItems(AsArray(Get(gearSection).Item))
           missing == SelectSeq(GEAR_SLOTS,
                                LAMBDA slotType : \A g \in Range(gear) : g.slot # slotType)
       IN gear \o [i \in 1..Len(missing) |-> createEmptySlot(missing[i])]

parseGear(gearSection) ==
  IF ~IsSome(gearSection) \/ ~Truthy(Get(gearSection).Item)
  THEN [i \in 1..Len(GEAR_SLOTS) |-> createEmptySlot(GEAR_SLOTS[i])]
  ELSE LET gear == MapItems(AsArray(Get(gearSection).Item)) IN
       [i \in 1..Len(GEAR_SLOTS) |-> FillSlot(gear, GEAR_SLOTS[i])]

(***************************************************************************)
(* Skill extractor (parsers/skill-parser.ts).  A skill is [name, level,    *)
(* quality, gems, mainActive]: gems is the optional <gems> element with    *)
(* its Gem children; a gem is [type, name, level, quality].  Levels and    *)
(* qualities are numbers, 0 when the attribute is missing.                 *)
(***************************************************************************)
\* parseInt(level || "1", 10) for a numeric level; 0 stands for none
GemLevel(level) == IF level = 0 THEN 1 ELSE level

parseSupportGems(skill) ==
  IF ~IsSome(skill.gems) \/ ~Get(skill.gems).Gem.isArray
  THEN <<>>
  ELSE LET supports == SelectSeq(AsArray(Get(skill.gems).Gem),
                                 LAMBDA gem : gem.type = "Support") IN
       [i \in 1..Len(supports) |->
          [name |-> IF supports[i].name # "" THEN supports[i].name ELSE "Unknown",
           gemLevel |-> GemLevel(supports[i].level),
           quality |-> supports[i].quality]]

calculateLinkCount(skill) ==
  LET supportCount ==
        IF IsSome(skill.gems) /\ Truthy(Get(skill.gems).Gem)
        THEN (IF Get(skill.gems).Gem.isArray THEN Len(Get(skill.gems).Gem.elems) ELSE 1)
        ELSE 0
  IN supportCount + 1

parseSkills(skillsSection) ==
  IF ~IsSome(skillsSection) \/ ~Get(skillsSection).Skill.isArray
  THEN <<>>
  ELSE LET skillArray == AsArray(Get(skillsSection).Skill) IN
       [i \in 1..Len(skillArray) |->
          [id |-> [prefix |-> "skill-", index |-> i],
           skillName |-> IF skillArray[i].name # "" THEN skillArray[i].name ELSE "Unknown",
           gemLevel |-> GemLevel(skillArray[i].level),
           quality |-> skillArray[i].quality,
           supports |-> parseSupportGems(skillArray[i]),
           linkCount |-> calculateLinkCount(skillArray[i]),
           isMainSkill |-> skillArray[i].mainActive]]

(***************************************************************************)
(* Stats extractor (parsers/stats-parser.ts).  A stat entry is [name,      *)
(* value] with a numeric value.                                            *)
(***************************************************************************)
getDefaultStats ==
  <<[name |-> "Life", value |-> 0, source |-> "estimated"],
    [name |-> "Energy Shield", value |-> 0, source |-> "estimated"],
    [name |-> "Fire Resistance", value |-> 0, source |-> "estimated"],
    [name |-> "Cold Resistance", value |-> 0, source |-> "estimated"],
    [name |-> "Lightning Resistance", value |-> 0, source |-> "estimated"],
    [name |-> "Chaos Resistance", value |-> 0, source |-> "estimated"]>>

parseStats(statsSection) ==
  IF ~IsSome(statsSection) \/ ~Truthy(Get(statsSection).Stat)
  THEN getDefaultStats
  ELSE LET stats == AsArray(Get(statsSection).Stat) IN
       [i \in 1..Len(stats) |->
          [name |-> stats[i].name, value |-> stats[i].value, source |-> "explicit"]]

(***************************************************************************)
(* Character extractor (parsers/character-parser.ts).  The level attribute *)
(* is [kind, n]: absent, a number n, or a text that is no number.  A       *)
(* JavaScript number is [nan, n].                                          *)
(***************************************************************************)
Num(n) == [nan |-> FALSE, n |-> n]

NaN == [nan |-> TRUE, n |-> 0]

\* a level attribute that is falsy in a || chain: absent, or the number 0
FalsyLevel(level) == level.kind = "absent" \/ (level.kind = "number" /\ level.n = 0)

\* parseInt(level || "1", 10): a number, or a text that begins with the
\* digits of n, gives n; any other text gives NaN
ParseLevel(level) ==
  IF FalsyLevel(level) THEN Num(1)
  ELSE IF level.kind \in {"number", "digitsThenText"} THEN Num(level.n)
  ELSE NaN

\* Math.min(100, Math.max(1, level)): NaN stays NaN
ClampLevel(level) ==
  IF level.nan THEN NaN
  ELSE Num(IF level.n < 1 THEN 1 ELSE IF level.n > 100 THEN 100 ELSE level.n)

NoLevel == [kind |-> "absent", n |-> 0]

\* a || b on attribute texts: "" stands for an absent attribute
OrElse(a, b) == IF a # "" THEN a ELSE b

\* a text attribute or null
OrNull(a) == IF a # "" THEN Some(a) ELSE None

parseCharacter(buildSection) ==
  IF ~IsSome(buildSection)
  THEN [class |-> "Witch", ascendancy |-> None, level |-> Num(1), league |-> None]
  ELSE LET section == Get(buildSection)
           socket == IF IsSome(section.MainSocket)
                     THEN Get(section.MainSocket)
                     ELSE [class |-> "", ascendancyName |-> "", level |-> NoLevel]
           level == IF FalsyLevel(section.level) THEN socket.level ELSE section.level
       IN [class |-> OrElse(socket.class, OrElse(section.class, "Witch")),
           ascendancy |-> OrNull(OrElse(socket.ascendancyName, section.ascendancy)),
           level |-> ClampLevel(ParseLevel(level)),
           league |-> OrNull(section.league)]

(***************************************************************************)
(* Passive extractor (parsers/passive-parser.ts).  A tree section is       *)
(* [nodes]: the allocated node ids of its specs, flattened in order.       *)
(***************************************************************************)
\* the content of data/keystones.json
KeystonesFile == <<[id |-> "16226", name |-> "Chaos Inoculation"]>>

\* keystonesData after parsePassives: loaded when it was empty
keystonesAfterLoad(data) == IF Len(data) = 0 THEN KeystonesFile ELSE data

identifySpecialNodes(nodeIds, data) ==
  LET hits == SelectSeq(nodeIds, LAMBDA id : \E k \in Range(data) : k.id = id) IN
  [i \in 1..Len(hits) |-> CHOOSE k \in Range(data) : k.id = hits[i]]

\* parsePassives below its first statement, with the table as it is then
PassivesWith(treeSection, table) ==
  IF ~IsSome(treeSection)
  THEN [totalPoints |-> 0, nodes |-> <<>>, keystones |-> <<>>, notables |-> <<>>]
  ELSE [totalPoints |-> Len(Get(treeSection).nodes),
        nodes |-> Get(treeSection).nodes,
        keystones |-> identifySpecialNodes(Get(treeSection).nodes, table),
        notables |-> <<>>]

parsePassives(treeSection, data) == PassivesWith(treeSection, keystonesAfterLoad(data))

\* loadKeystonesData against a data source [readable, entries]: the parsed
\* file, or [] when reading or parsing it throws
loadKeystonesData(source) == IF source.readable THEN source.entries ELSE <<>>

\* the guard of the load: keystonesData.length === 0
NeedsLoad(data) == Len(data) = 0

(***************************************************************************)
(* Content cache (cache/build-cache.ts): an LRUCache with max, ttl,        *)
(* updateAgeOnGet and updateAgeOnHas.  Entries are [key, value, start],    *)
(* least recently used first.  The capacity and the time-to-live are read  *)
(* from the environment (CACHE_SIZE, default 100; CACHE_TTL, default one   *)
(* hour): the studies run the server with a capacity of 2 builds and a     *)
(* time-to-live of 2 ticks.                                                *)
(***************************************************************************)
CACHE_MAX_SIZE == 2

CACHE_TTL_MS == 2

\* a key taken from the input after its surrounding white space is stripped
generateCacheKeyOfTrimmed(buildCode) ==
  [sha256 |-> [buildCode EXCEPT !.text = Trim(buildCode.text)]]

\* createHash("sha256").update(buildCode).digest("hex"): collision-free
generateCacheKey(buildCode) == [sha256 |-> buildCode]

\* lru-cache isStale
IsStale(entry, t) == t - entry.start > CACHE_TTL_MS

HasKey(cache, key) == \E i \in 1..Len(cache) : cache[i].key = key

EntryOf(cache, key) == CHOOSE e \in Range(cache) : e.key = key

Without(cache, key) == SelectSeq(cache, LAMBDA e : e.key # key)

\* a get without updateAgeOnGet: a hit leaves the age of the entry running
cacheGetKeepingAge(cache, key, t) ==
  IF ~HasKey(cache, key) THEN [value |-> None, cache |-> cache]
  ELSE LET e == EntryOf(cache, key) IN
       IF IsStale(e, t)
       THEN [value |-> None, cache |-> Without(cache, key)]
       ELSE [value |-> Some(e.value), cache |-> Append(Without(cache, key), e)]

\* buildCache.get(key) at time t: [value, cache]
cacheGet(cache, key, t) ==
  IF ~HasKey(cache, key) THEN [value |-> None, cache |-> cache]
  ELSE LET e == EntryOf(cache, key) IN
       IF IsStale(e, t)
       THEN [value |-> None, cache |-> Without(cache, key)]
       ELSE [value |-> Some(e.value),
             cache |-> Append(Without(cache, key), [e EXCEPT !.start = t])]

\* buildCache.set(key, value) at time t: the new cache
cacheSet(cache, key, value, t) ==
  LET entry == [key |-> key, value |-> value, start |-> t] IN
  IF HasKey(cache, key) THEN Append(Without(cache, key), entry)
  ELSE IF Len(cache) >= CACHE_MAX_SIZE THEN Append(Tail(cache), entry)
  ELSE Append(cache, entry)

getCachedBuild(cache, buildCode, t) == cacheGet(cache, generateCacheKey(buildCode), t)

setCachedBuild(cache, buildCode, build, t) ==
  cacheSet(cache, generateCacheKey(buildCode), build, t)

\* a has that also moves the entry to the most recently used end
cacheHasMovingToTail(cache, key, t) ==
  IF ~HasKey(cache, key) \/ IsStale(EntryOf(cache, key), t)
  THEN [value |-> FALSE, cache |-> cache]
  ELSE [value |-> TRUE,
        cache |-> Append(Without(cache, key), [EntryOf(cache, key) EXCEPT !.start = t])]

\* buildCache.has(key) at time t: [value, cache].  A hit resets the age of
\* the entry (updateAgeOnHas) and leaves its place in the list; a stale
\* entry is reported absent and stays until a get or an eviction removes it.
cacheHas(cache, key, t) ==
  IF ~HasKey(cache, key) \/ IsStale(EntryOf(cache, key), t)
  THEN [value |-> FALSE, cache |-> cache]
  ELSE [value |-> TRUE,
        cache |-> [i \in 1..Len(cache) |->
                     IF cache[i].key = key THEN [cache[i] EXCEPT !.start = t]
                     ELSE cache[i]]]

hasCachedBuild(cache, buildCode, t) == cacheHas(cache, generateCacheKey(buildCode), t)

\* buildCache.clear()
clearCache == <<>>

getCacheStats(cache) == [size |-> Len(cache), maxSize |-> CACHE_MAX_SIZE, hitRate |-> 0]

(***************************************************************************)
(* parse_pob_code (tools/parse_pob_code.ts).                               *)
(***************************************************************************)
\* the ParsedBuild assembled from a validated root at time t
AssembleBuild(pobXML, data, t) ==
  [buildId |-> "",
   version |-> Get(pobXML.version),
   gameVersion |-> IF pobXML.gameVersion # "" THEN pobXML.gameVersion ELSE "3.25.0",
   character |-> parseCharacter(pobXML.Build),
   skills |-> parseSkills(pobXML.Skills),
   passives |-> parsePassives(pobXML.Tree, data),
   gear |-> parseGear(pobXML.Gear),
   stats |-> parseStats(pobXML.Stats),
   parsedAt |-> t]

\* the handler's body after a cache miss, up to the build or the first error:
\* [result, stages, keystones]
Pipeline(buildCode, data, t) ==
  LET d == decodeBase64(buildCode)
      x == parsePoBXML(buildCode)
      reachedParser == d.ok /\ decompressWithFallback(d.val).ok
  IN IF ~x.ok
     THEN [result |-> x,
           stages |-> {"Decoder"} \cup (IF reachedParser THEN {"StructuralParser"} ELSE {}),
           keystones |-> data]
     ELSE LET v == validatePoBVersion(x.val) IN
          IF ~v.ok
          THEN [result |-> v,
                stages |-> {"Decoder", "StructuralParser", "VersionGate"},
                keystones |-> data]
          ELSE [result |-> Return(AssembleBuild(x.val, data, t)),
                stages |-> {"Decoder", "StructuralParser", "VersionGate", "Extractors"},
                keystones |-> keystonesAfterLoad(data)]

SuccessResponse(build) == [success |-> TRUE, build |-> Some(build), error |-> None]

\* the response to a cache hit
HitResponse(cached) == SuccessResponse(cached)

\* a cache that stamps the build with its key before storing it
StoredBuildStamped(build) == [build EXCEPT !.buildId = "sha256"]

\* what setCachedBuild is given
StoredBuild(build) == build

\* a call whose arguments hold no buildCode string
NotAString == [text |-> <<>>, data |-> <<>>, typeof |-> "undefined"]

IsString(buildCode) == "typeof" \notin DOMAIN buildCode

\* createHash("sha256").update(buildCode) for a buildCode that is no string
HashTypeError ==
  Error_("TypeError", <<"The \"data\" argument must be of type string">>)

Parse(buildCode) ==
  LET cached == getCachedBuild(buildCache, buildCode, now) IN
  /\ lastInput' = Some(buildCode)
  /\ IF ~IsString(buildCode)
     THEN /\ response' = Some(wrapError(HashTypeError))
          /\ ran' = {}
          /\ UNCHANGED <<buildCache, keystonesData, served>>
     ELSE IF IsSome(cached.value)
     THEN /\ response' = Some(HitResponse(Get(cached.value)))
          /\ buildCache' = cached.cache
          /\ ran' = {}
          /\ UNCHANGED <<keystonesData, served>>
     ELSE LET p == Pipeline(buildCode, keystonesData, now) IN
          /\ ran' = p.stages
          /\ keystonesData' = p.keystones
          /\ IF p.result.ok
             THEN /\ buildCache' = setCachedBuild(cached.cache, buildCode,
                                                  StoredBuild(p.result.val), now)
                  /\ response' = Some(SuccessResponse(p.result.val))
                  /\ served' = (buildCode :> SuccessResponse(p.result.val)) @@ served
             ELSE /\ buildCache' = cached.cache
                  /\ response' = Some(wrapError(p.result.err))
                  /\ UNCHANGED served
  /\ UNCHANGED now

(***************************************************************************)
(* Inputs.                                                                 *)
(***************************************************************************)
XmlError == [throws |-> TRUE, msg |-> <<"Unclosed tag">>, root |-> None]

XmlOf(root) == [throws |-> FALSE, msg |-> <<>>, root |-> root]

EmptyText == [length |-> 0, xml |-> XmlError]

TextOf(xml) == [length |-> 1, xml |-> xml]

Inflated(out) == [ok |-> TRUE, msg |-> <<>>, out |-> out]

InflateError(m) == [ok |-> FALSE, msg |-> m, out |-> EmptyText]

ZlibMessage == <<"incorrect header check">>

RawMessage == <<"invalid stored block lengths">>

\* bytes in the standard framing that inflate to the text
ZlibFramed(text) == [zlib |-> Inflated(text), raw |-> InflateError(RawMessage)]

\* bytes in the raw framing that inflate to the text
RawFramed(text) == [zlib |-> InflateError(ZlibMessage), raw |-> Inflated(text)]

\* bytes neither framing inflates
Corrupt == [zlib |-> InflateError(ZlibMessage), raw |-> InflateError(RawMessage)]

Pob(version, build, skills, tree, gear, stats) ==
  [version |-> version, gameVersion |-> "", Build |-> build, Skills |-> skills,
   Tree |-> tree, Gear |-> gear, Stats |-> stats]

Skill(name, gems) ==
  [name |-> name, level |-> 0, quality |-> 0, gems |-> gems, mainActive |-> FALSE]

Gem(type, name) == [type |-> type, name |-> name, level |-> 0, quality |-> 0]

\* a root with no section at all
BareDoc(version) == Pob(version, None, None, None, None, None)

\* zero allocated passives, one skill with zero supports, no stats, no gear
SparseDoc(version, skillName) ==
  Pob(version, None, Some([Skill |-> One(Skill(skillName, None))]),
      Some([nodes |-> <<>>]), None, None)

\* a build section with class and level attributes only
BuildSection(class, level) ==
  [class |-> class, ascendancy |-> "", level |-> level, league |-> "", MainSocket |-> None]

\* a Chaos Inoculation build with gear and explicit stats
FullDoc(version) ==
  Pob(version,
      Some(BuildSection("Witch", [kind |-> "number", n |-> 90])),
      Some([Skill |-> Many(<<Skill("Arc", Some([Gem |-> Many(<<Gem("Support", "Added Lightning Damage"),
                                                               Gem("Active", "Arc")>>)])),
                             Skill("Flame Dash", None)>>)]),
      Some([nodes |-> <<"100", "16226">>]),
      Some([Item |-> Many(<<[slot |-> "Helmet", name |-> "Hubris Circlet", baseType |-> "",
                             mods |-> <<[kind |-> "es", n |-> 120, m |-> 0]>>],
                            [slot |-> "", name |-> "Divine Life Flask", baseType |-> "",
                             mods |-> <<>>]>>)]),
      Some([Stat |-> Many(<<[name |-> "Energy Shield", value |-> 6000],
                            [name |-> "Fire Resistance", value |-> 75]>>)]))

Code(text, data) == [text |-> text, data |-> data]

GoodText == <<"A", "A", "A", "A">>

Padded(text) == <<" ">> \o text \o <<" ">>

Min == Some(minVersion)

Old == Some(<<"1", ".", "4", ".", "1", "0", "0">>)

\* the build codes of the cache study
CacheInputs ==
  {Code(GoodText, ZlibFramed(TextOf(XmlOf(Some(SparseDoc(Min, "Unknown")))))),
   Code(Padded(GoodText), ZlibFramed(TextOf(XmlOf(Some(SparseDoc(Min, "Unknown")))))),
   Code(GoodText, RawFramed(TextOf(XmlOf(Some(FullDoc(Min)))))),
   Code(GoodText, ZlibFramed(TextOf(XmlOf(Some(BareDoc(Old)))))),
   Code(GoodText, Corrupt),
   Code(<<"A", "!", "A", "A">>, Corrupt)}

MaxTime == 4

(***************************************************************************)
(* The parse handler with its cache, under a clock.                        *)
(***************************************************************************)
Init ==
  /\ buildCache = <<>>
  /\ now = 1
  /\ keystonesData = <<>>
  /\ response = None
  /\ lastInput = None
  /\ ran = {}
  /\ served = <<>>
  /\ arg = None
  /\ ret = None
  /\ analysed = None
  /\ suggested = None
  /\ remembered = None
  /\ called = None
  /\ recency = [byAnyHit |-> <<>>, byLookup |-> <<>>, usedAt |-> <<>>]
  /\ requests = <<>>
  /\ handledLog = <<>>

ParseCall == /\ \E x \in CacheInputs : Parse(x)
             /\ UNCHANGED <<pureVars, sessionVars, cacheVars, requestVars>>

Tick == /\ now < MaxTime
        /\ now' = now + 1
        /\ UNCHANGED <<buildCache, keystonesData, response, lastInput, ran, served>>
        /\ UNCHANGED <<pureVars, sessionVars, cacheVars, requestVars>>

Next == ParseCall \/ Tick

Spec == Init /\ [][Next]_vars

(***************************************************************************)
(* One build code parsed, and parsed again: the decoder study and the      *)
(* version gate study.  Init draws the code; the clock stands still.       *)
(***************************************************************************)
InitWith(inputs) ==
  /\ buildCache = <<>>
  /\ now = 1
  /\ keystonesData = <<>>
  /\ response = None
  /\ lastInput = None
  /\ ran = {}
  /\ served = <<>>
  /\ arg \in {Some(x) : x \in inputs}
  /\ ret = None
  /\ analysed = None
  /\ suggested = None
  /\ remembered = None
  /\ called = None
  /\ recency = [byAnyHit |-> <<>>, byLookup |-> <<>>, usedAt |-> <<>>]
  /\ requests = <<>>
  /\ handledLog = <<>>

ParseArg == /\ IsSome(arg)
            /\ Parse(Get(arg))
            /\ UNCHANGED <<pureVars, sessionVars, cacheVars, requestVars>>

DecodeTexts ==
  {<<>>, <<" ">>, <<" ", " ">>, <<"A">>, <<"=">>, <<" ", "A", " ">>, <<"A", "A">>,
   <<"A", "A", "=", "=">>, GoodText, Padded(GoodText), <<" ">> \o GoodText,
   <<"!">>, <<"A", "!", "A", "A">>, <<"A", " ", "A", "A">>, Padded(<<"A", "A", "!">>)}

GoodXmlText == TextOf(XmlOf(Some(SparseDoc(Min, "Unknown"))))

DecodeData ==
  {Corrupt,
   [zlib |-> InflateError(<<"unexpected end of file">>),
    raw |-> InflateError(<<"invalid block type">>)],
   ZlibFramed(GoodXmlText),
   RawFramed(GoodXmlText),
   [zlib |-> Inflated(EmptyText), raw |-> InflateError(RawMessage)],
   [zlib |-> InflateError(ZlibMessage), raw |-> Inflated(EmptyText)],
   [zlib |-> Inflated(EmptyText), raw |-> Inflated(GoodXmlText)],
   ZlibFramed(TextOf(XmlError)),
   ZlibFramed(TextOf(XmlOf(None))),
   ZlibFramed(TextOf(XmlOf(Some(BareDoc(Old))))),
   RawFramed(TextOf(XmlOf(Some(BareDoc(None)))))}

DecodeInputs == {Code(t, d) : t \in DecodeTexts, d \in DecodeData}

InitDecode == InitWith(DecodeInputs)

NextDecode == ParseArg

SpecDecode == InitDecode /\ [][NextDecode]_vars

\* the digits version strings are drawn from, and how many follow "1.4."
VersionDigits == {"0", "1", "6", "7", "9"}

MaxPatchLen == 3

PatchStrings == UNION {[1..n -> VersionDigits] : n \in 0..MaxPatchLen}

VersionStrings ==
  {<<"1", ".", "4", ".">> \o p : p \in PatchStrings}
    \cup {<<>>, <<"1">>, <<"1", ".", "4">>, <<"1", ".", "5">>, <<"2", ".", "0", ".", "0">>,
          <<"0", ".", "9", ".", "9">>, <<"1", ".", "1", "0", ".", "0">>,
          <<"1", ".", "3", ".", "2", "0", "0">>, <<"1", "0", ".", "0">>,
          minVersion \o <<"0">>, minVersion \o <<".", "1">>}

VersionInputs ==
  {Code(GoodText, ZlibFramed(TextOf(XmlOf(Some(BareDoc(v)))))) :
     v \in {None} \cup {Some(s) : s \in VersionStrings}}

InitVersion == InitWith(VersionInputs)

NextVersion == ParseArg

SpecVersion == InitVersion /\ [][NextVersion]_vars

(***************************************************************************)
(* Claims about the parse handler.                                         *)
(***************************************************************************)
Responded == IsSome(response)

Succeeded == Responded /\ Get(response).success

FailedWith(code) ==
  /\ Responded
  /\ ~Get(response).success
  /\ Get(Get(response).error).code = code

ErrorOfResponse == Get(Get(response).error)

\* the entry of build code x is in the cache and within its time-to-live
CachedFresh(x) ==
  /\ HasKey(buildCache, generateCacheKey(x))
  /\ now - EntryOf(buildCache, generateCacheKey(x)).start <= CACHE_TTL_MS

\* C1: a parse of x while the entry of an earlier successful parse of x is
\* still cached and unexpired returns the very response of that earlier
\* parse (timestamp included) and runs no stage of the pipeline.
C1_RepeatedParseServedFromCache ==
  [][\A x \in CacheInputs :
       (CachedFresh(x) /\ lastInput' = Some(x) /\ now' = now)
         => /\ x \in DOMAIN served
            /\ response' = Some(served[x])
            /\ ran' = {}]_vars

\* C1 witness: a hit that returns a build stamped at an earlier time
C1_Witness ==
  /\ Succeeded
  /\ ran = {}
  /\ Get(Get(response).build).parsedAt < now
  /\ Get(lastInput) \in DOMAIN served
  /\ Get(response) = served[Get(lastInput)]

\* C2: an input that, once its surrounding white space is stripped, is
\* empty or holds a character outside the base64 alphabet, or that passes
\* the alphabet check and decodes to zero bytes, fails with INVALID_BASE64.
C2_InvalidEncoding ==
  Responded =>
    LET t == Trim(Get(lastInput).text) IN
    (\/ Len(t) = 0
     \/ \E i \in 1..Len(t) : t[i] \notin Base64Alphabet
     \/ DecodedLength(t) = 0)
      => FailedWith(INVALID_BASE64)

\* C2 witness: an input of alphabet characters that decodes to zero bytes
C2_Witness ==
  /\ FailedWith(INVALID_BASE64)
  /\ Base64Regex(Trim(Get(lastInput).text))
  /\ ErrorOfResponse.message = <<"Decoded buffer is empty">>

\* the input decodes to bytes that neither framing inflates
BothFramingsFail(x) ==
  /\ decodeBase64(x).ok
  /\ ~x.data.zlib.ok
  /\ ~x.data.raw.ok

\* C3 (as claimed): when both framings fail the response is
\* DECOMPRESSION_ERROR and its details hold the error message of the
\* standard attempt and the error message of the raw attempt.
C3_DetailsCarryBothMessages ==
  (Responded /\ BothFramingsFail(Get(lastInput)))
    => /\ FailedWith(DECOMPRESSION_ERROR)
       /\ Contains(ErrorOfResponse.details, Get(lastInput).data.zlib.msg)
       /\ Contains(ErrorOfResponse.details, Get(lastInput).data.raw.msg)

\* the version the document of x declares
DeclaredVersion(x) == Get(x.data.zlib.out.xml.root).version

\* a sorts before b: b continues a, or they first differ where a is smaller
SortsBelow(a, b) ==
  \E k \in 0..Len(a) :
    /\ k <= Len(b)
    /\ \A i \in 1..k : a[i] = b[i]
    /\ \/ (k = Len(a) /\ k < Len(b))
       \/ (k < Len(a) /\ k < Len(b) /\ CharCode(a[k + 1]) < CharCode(b[k + 1]))

InitPure(inputs) ==
  /\ buildCache = <<>>
  /\ now = 1
  /\ keystonesData = <<>>
  /\ response = None
  /\ lastInput = None
  /\ ran = {}
  /\ served = <<>>
  /\ arg \in {Some(x) : x \in inputs}
  /\ ret = None
  /\ analysed = None
  /\ suggested = None
  /\ remembered = None
  /\ called = None
  /\ recency = [byAnyHit |-> <<>>, byLookup |-> <<>>, usedAt |-> <<>>]
  /\ requests = <<>>
  /\ handledLog = <<>>

\* sequences over S of length 0..n
SeqsUpTo(S, n) == UNION {[1..k -> S] : k \in 0..n}

\* the children of one tag: none, one object, or an array of 2..n objects
ChildrenOf(S, n) ==
  {NoChild} \cup {One(e) : e \in S} \cup {Many(es) : es \in SeqsUpTo(S, n) \ SeqsUpTo(S, 1)}

MaxGearItems == 2

GearItems ==
  {[slot |-> sl, name |-> nm, baseType |-> "", mods |-> <<>>] :
     sl \in {"", "Helmet", "Ring1", "Flask1", "Jewel1"},
     nm \in {"", "Hubris Circlet", "Divine Life Flask"}}

GearSections == {None} \cup {Some([Item |-> c]) : c \in ChildrenOf(GearItems, MaxGearItems)}

InitGear == InitPure(GearSections)

ApplyParseGear ==
  /\ ret = None
  /\ ret' = Some(parseGear(Get(arg)))
  /\ UNCHANGED <<arg, parseVars, sessionVars, cacheVars, requestVars>>

NextGear == ApplyParseGear

SpecGear == InitGear /\ [][NextGear]_vars

\* the items of a gear section
ItemsOf(gearSection) ==
  IF IsSome(gearSection) THEN Range(Get(gearSection).Item.elems) ELSE {}

\* the item names a slot type: by its slot value, or a flask without one
AssignedTo(item, slotType) ==
  /\ item.name # ""
  /\ \/ item.slot = slotType
     \/ (item.slot = "" /\ item.name \in FlaskNames /\ slotType = "Flask1")

MaxSkills == 2

MaxGems == 2

SkillGems ==
  {Gem("Support", "Added Fire Damage"), Gem("Support", ""), Gem("Active", "Fireball")}

SkillEntries ==
  {Skill("Fireball", g) :
     g \in {None} \cup {Some([Gem |-> c]) : c \in ChildrenOf(SkillGems, MaxGems)}}

SkillsSections ==
  {None} \cup {Some([Skill |-> c]) : c \in ChildrenOf(SkillEntries, MaxSkills)}

InitSkills == InitPure(SkillsSections)

ApplyParseSkills ==
  /\ ret = None
  /\ ret' = Some(parseSkills(Get(arg)))
  /\ UNCHANGED <<arg, parseVars, sessionVars, cacheVars, requestVars>>

NextSkills == ApplyParseSkills

SpecSkills == InitSkills /\ [][NextSkills]_vars

\* C6 (as claimed): every SkillSetup has linkCount = supports.length + 1
C6_LinkCountIsSupportsPlusOne ==
  IsSome(ret) =>
    \A i \in 1..Len(Get(ret)) : Get(ret)[i].linkCount = Len(Get(ret)[i].supports) + 1

(***************************************************************************)
(* Defensive analyzer (analyzeDefense and its helpers; the details text    *)
(* of the analysis is left out).  An affix text [kind, n, m] stands for    *)
(*   "life"  "+n to maximum Life"                                          *)
(*   "es"    "+n to maximum Energy Shield"                                 *)
(*   "res"   "+n% to m Resistance"  (m the element)                        *)
(*   "increased"  "+n% increased Damage"                                   *)
(*   "more"       "+n% more Damage"                                        *)
(*   "speed"      "n% increased Movement Speed"                            *)
(*   "block"      "+n% Chance to Block"                                    *)
(*   "suppress"   "+n% chance to Suppress Spell Damage"                    *)
(*   "armour"     "+n to Armour"                                           *)
(*   "evasion"    "+n to Evasion Rating"                                   *)
(*   "crit"       "+n to Critical Strike Multiplier"                       *)
(*   "other" a text none of the analyzers' patterns matches                *)
(***************************************************************************)
AffixText(kind, n, m) == [kind |-> kind, n |-> n, m |-> m]

\* String.prototype.toLowerCase over the stat names of the inputs
toLowerCase(name) ==
  CASE name = "Life" -> "life"
    [] name = "Maximum Life" -> "maximum life"
    [] name = "Energy Shield" -> "energy shield"
    [] name = "Fire Resistance" -> "fire resistance"
    [] name = "Cold Resistance" -> "cold resistance"
    [] name = "Lightning Resistance" -> "lightning resistance"
    [] name = "Chaos Resistance" -> "chaos resistance"
    [] name = "Armor" -> "armor"
    [] name = "Armour" -> "armour"
    [] name = "Evasion" -> "evasion"
    [] name = "Evasion Rating" -> "evasion rating"
    [] name = "DPS" -> "dps"
    [] OTHER -> name

Max(a, b) == IF a >= b THEN a ELSE b

Min2(a, b) == IF a <= b THEN a ELSE b

\* the switch over stat.name.toLowerCase(): the field a stat sets
DefensiveField(name) ==
  LET l == toLowerCase(name) IN
  CASE l \in {"life", "maximum life"} -> "life"
    [] l \in {"energy shield", "maximum energy shield"} -> "energyShield"
    [] l \in {"fire resistance", "fire resist"} -> "fireResist"
    [] l \in {"cold resistance", "cold resist"} -> "coldResist"
    [] l \in {"lightning resistance", "lightning resist"} -> "lightningResist"
    [] l \in {"chaos resistance", "chaos resist"} -> "chaosResist"
    [] l \in {"armor", "base armour"} -> "armor"
    [] l \in {"evasion", "evasion rating"} -> "evasion"
    [] OTHER -> "none"

ZeroDefensiveStats ==
  [life |-> 0, energyShield |-> 0, fireResist |-> 0, coldResist |-> 0,
   lightningResist |-> 0, chaosResist |-> 0, armor |-> 0, evasion |-> 0]

RECURSIVE FromExplicitStats(_, _)
\* for (const stat of build.stats): a later stat overwrites an earlier one
FromExplicitStats(stats, acc) ==
  IF Len(stats) = 0 THEN acc
  ELSE LET f == DefensiveField(stats[1].name) IN
       FromExplicitStats(Tail(stats),
                         IF f = "none" THEN acc ELSE [acc EXCEPT ![f] = stats[1].value])

RECURSIVE AllAffixes(_)
\* the affixes of the gear, slot by slot
AllAffixes(gear) ==
  IF Len(gear) = 0 THEN <<>> ELSE gear[1].affixes \o AllAffixes(Tail(gear))

RECURSIVE FromGearAffixes(_, _)
\* the gear loop: an affix adds to life (energy shield) while that is 0
FromGearAffixes(affixes, acc) ==
  IF Len(affixes) = 0 THEN acc
  ELSE LET a == affixes[1]
           withLife == IF a.kind = "life" /\ acc.life = 0
                       THEN [acc EXCEPT !.life = acc.life + a.n] ELSE acc
           withES == IF a.kind = "es" /\ withLife.energyShield = 0
                     THEN [withLife EXCEPT !.energyShield = withLife.energyShield + a.n]
                     ELSE withLife
       IN FromGearAffixes(Tail(affixes), withES)

extractDefensiveStats(build) ==
  LET explicit == FromExplicitStats(build.stats, ZeroDefensiveStats) IN
  IF explicit.life = 0 \/ explicit.energyShield = 0
  THEN FromGearAffixes(AllAffixes(build.gear), explicit)
  ELSE explicit

getMinElementalResist(stats) ==
  Min2(stats.fireResist, Min2(stats.coldResist, stats.lightningResist))

isResistCapped(stats) ==
  stats.fireResist >= 75 /\ stats.coldResist >= 75 /\ stats.lightningResist >= 75

\* an effective life that takes no account of the keystone
EffectiveLifeOfPools(stats, hasChaosInoculation) == Max(stats.life, stats.energyShield)

EffectiveLife(stats, hasChaosInoculation) ==
  IF hasChaosInoculation THEN stats.energyShield ELSE Max(stats.life, stats.energyShield)

classifyDefense(stats, hasChaosInoculation) ==
  LET minResist == getMinElementalResist(stats)
      effectiveLife == EffectiveLife(stats, hasChaosInoculation)
  IN IF effectiveLife > 5000 /\ isResistCapped(stats)
        /\ (stats.armor > 10000 \/ stats.evasion > 10000)
     THEN "uber_viable"
     ELSE IF effectiveLife > 4000 /\ isResistCapped(stats) THEN "tanky"
     ELSE IF effectiveLife > 2500 /\ minResist >= 50 THEN "moderate"
     ELSE "glass_cannon"

\* names whose lower-cased text includes "chaos inoculation"
ChaosInoculationNames == {"Chaos Inoculation"}

HasChaosInoculation(build) ==
  \E k \in Range(build.passives.keystones) :
    k.name \in ChaosInoculationNames \/ k.id = "16226"

analyzeDefense(build) ==
  LET stats == extractDefensiveStats(build)
      rating == classifyDefense(stats, HasChaosInoculation(build))
  IN [rating |-> rating,
      life |-> stats.life,
      energyShield |-> stats.energyShield,
      fireResist |-> stats.fireResist,
      coldResist |-> stats.coldResist,
      lightningResist |-> stats.lightningResist,
      chaosResist |-> stats.chaosResist,
      armor |-> stats.armor,
      evasion |-> stats.evasion]

(***************************************************************************)
(* analyzeDefense as a function of the build.                              *)
(***************************************************************************)
LifeValues == {0, 2500, 2501, 4000, 4001, 5000, 5001}

ShieldValues == {0, 2501, 4001, 5000, 5001}

MitigationValues == {10000, 10001}

KeystoneSets ==
  {<<>>, <<[id |-> "16226", name |-> "Chaos Inoculation"]>>,
   <<[id |-> "57279", name |-> "Iron Reflexes"]>>}

\* a helmet with one life affix, or no gear
GearChoices ==
  {<<>>, <<[slot |-> "Helmet", itemName |-> "Hubris Circlet", baseType |-> "",
            affixes |-> <<AffixText("life", 5001, "")>>]>>}

DefenseBuilds ==
  {[stats |-> <<[name |-> "Life", value |-> life],
                [name |-> "Energy Shield", value |-> es],
                [name |-> "Fire Resistance", value |-> fire],
                [name |-> "Cold Resistance", value |-> cold],
                [name |-> "Lightning Resistance", value |-> lightning],
                [name |-> "Armor", value |-> armor],
                [name |-> "Evasion Rating", value |-> evasion]>>,
    gear |-> gear,
    passives |-> [keystones |-> keystones]] :
     life \in LifeValues, es \in ShieldValues,
     fire \in {49, 50, 74, 75}, cold \in {49, 50, 75}, lightning \in {50, 75},
     armor \in MitigationValues, evasion \in MitigationValues,
     gear \in GearChoices, keystones \in KeystoneSets}

InitDefense == InitPure(DefenseBuilds)

ApplyAnalyzeDefense ==
  /\ ret = None
  /\ ret' = Some(analyzeDefense(Get(arg)))
  /\ UNCHANGED <<arg, parseVars, sessionVars, cacheVars, requestVars>>

NextDefense == ApplyAnalyzeDefense

SpecDefense == InitDefense /\ [][NextDefense]_vars

Text(fmt, args) == [fmt |-> fmt, args |-> args]

Keywords(name) ==
  CASE name = "Fireball" -> {"fire"}
    [] name = "Spark" -> {"spark"}
    [] name = "Arc" -> {"arc"}
    [] name = "Flame Dash" -> {"dash", "flame dash"}
    [] name = "Steelskin" -> {"steelskin"}
    [] name = "Frostbite" -> {"frostbite"}
    [] name = "Molten Strike" -> {"strike"}
    [] name = "Chain Hook" -> {"chain"}
    [] name = "Added Fire Damage" -> {"damage", "fire"}
    [] name = "Added Lightning Damage" -> {"damage", "lightning"}
    [] name = "Controlled Destruction" -> {"controlled destruction"}
    [] name = "Elemental Focus" -> {"elemental", "elemental focus"}
    [] name = "Greater Multiple Projectiles" ->
         {"greater multiple projectiles", "multiple projectiles"}
    [] name = "Blasphemy" -> {"blasphemy"}
    [] name = "Spell Echo" -> {"spell"}
    [] name = "Efficacy" -> {"efficacy"}
    [] name = "Life" -> {"life"}
    [] name = "Maximum Life" -> {"life"}
    [] name = "Energy Shield" -> {"energy shield", "shield"}
    [] name = "Fire Resistance" -> {"fire", "fire resist", "resistance"}
    [] name = "Cold Resistance" -> {"cold", "cold resist", "resistance"}
    [] name = "Lightning Resistance" ->
         {"lightning", "lightning resist", "resistance"}
    [] name = "Chaos Resistance" -> {"chaos", "chaos resist", "resistance"}
    [] name = "Armor" -> {"armor"}
    [] name = "Evasion Rating" -> {"evasion"}
    [] name = "DPS" -> {"dps"}
    [] name = "Movement Speed" -> {"movement speed"}
    [] name = "Mana" -> {"mana"}
    [] name = "Life Regeneration" ->
         {"life", "life regen", "life regeneration", "regen"}
    [] name = "Critical Strike Chance" ->
         {"critical", "critical strike", "critical strike chance", "strike"}
    [] name = "Chaos Inoculation" -> {"chaos", "chaos inoculation"}
    [] name = "Iron Reflexes" -> {"iron reflexes"}
    [] name = "Mind Over Matter" -> {"mind over matter"}
    [] name = "Hubris Circlet" -> {"ci"}
    [] name = "Divine Life Flask" -> {"divine", "life"}
    [] name = "Quicksilver Flask" -> {"quicksilver"}
    [] name = "Granite Flask" -> {"granite"}
    [] name = "Empty" -> {"empty"}
    [] name = "Rusted Sword" -> {"sword"}
    [] name = "Simple Robe" -> {"robe"}
    [] name = "Splintered Tower Shield" -> {"shield"}
    [] name = "Ranger" -> {"ranger"}
    [] name = "Low life pool (%d) - vulnerable to burst damage" ->
         {"damage", "life", "life pool", "low life", "vulnerable"}
    [] name = "Low energy shield (%d) for CI build" ->
         {"ci", "energy shield", "low energy shield", "shield"}
    [] name = "Uncapped fire resistance (%d% - need %d% more)" ->
         {"fire", "fire resist", "more", "resistance", "uncapped"}
    [] name = "Uncapped cold resistance (%d% - need %d% more)" ->
         {"cold", "cold resist", "more", "resistance", "uncapped"}
    [] name = "Uncapped lightning resistance (%d% - need %d% more)" ->
         {"lightning", "lightning resist", "more", "resistance", "uncapped"}
    [] name = "No chaos resistance (%d%) - vulnerable to chaos damage" ->
         {"chaos", "chaos resist", "damage", "no chaos", "resistance",
         "vulnerable"}
    [] name = "Low armor and evasion - poor physical damage mitigation" ->
         {"armor", "damage", "evasion", "physical"}
    [] name = "No block or spell suppression - relies solely on life/ES" ->
         {"life", "spell"}
    [] name = "Single-element damage (%s) - struggles against resistant enemies" ->
         {"damage", "sin"}
    [] name = "Main skill in %d-link (recommend 6-link for max damage)" ->
         {"damage"}
    [] name = "Main skill lacks damage support gems" -> {"damage"}
    [] name = "Low DPS (%dk) - clear speed will be slow" ->
         {"clear speed", "dps"}
    [] name = "No curse setup - missing enemy debuff potential" -> {"sin"}
    [] name = "Low movement speed (%d%) - slow clear speed" ->
         {"clear speed", "movement speed"}
    [] name = "No guard skill - vulnerable to burst damage" ->
         {"damage", "vulnerable"}
    [] name = "No life/ES regeneration or leech - poor sustain" ->
         {"es regen", "leech", "life", "regen"}
    [] name = "Chaos immunity from Chaos Inoculation" ->
         {"chaos", "chaos inoculation"}
    [] OTHER -> {}

Includes(name, pattern) == pattern \in Keywords(name)

IncludesAny(name, patterns) == \E p \in patterns : Includes(name, p)

\* the same test on a built text: the interpolated values of the inputs hold
\* numbers and element names, which include none of the patterns asked for
TextIncludes(text, pattern) == Includes(text.fmt, pattern)

RECURSIVE Concat(_)
\* the concatenation of a sequence of sequences
Concat(ss) == IF Len(ss) = 0 THEN <<>> ELSE ss[1] \o Concat(Tail(ss))

When(cond, s) == IF cond THEN s ELSE <<>>

\* arr.some(pred), arr.find(pred) over a sequence
Some_(s, Pred(_)) == \E i \in 1..Len(s) : Pred(s[i])

Find(s, Pred(_)) == LET hits == SelectSeq(s, Pred) IN IF Len(hits) > 0 THEN Some(hits[1]) ELSE None

\* Math.ceil(a / b) and Math.round(a / b) for a >= 0, b > 0
CeilDiv(a, b) == (a + b - 1) \div b

RoundDiv(a, b) == (2 * a + b) \div (2 * b)

Suggestion(category, priority, description, specificAction, expectedImpact) ==
  [category |-> category, priority |-> priority, description |-> description,
   specificAction |-> specificAction, expectedImpact |-> expectedImpact]

(***************************************************************************)
(* Gem suggester (suggesters/gem-suggester.ts).                            *)
(***************************************************************************)
CRITICAL_SUPPORTS ==
  <<[key |-> "kinetic blast",
     supports |-> <<"multistrike", "greater multiple projectiles", "elemental damage",
                    "controlled destruction">>],
    [key |-> "tornado shot",
     supports |-> <<"greater multiple projectiles", "chain", "elemental damage",
                    "vicious projectiles">>],
    [key |-> "spark",
     supports |-> <<"arcane potency", "controlled destruction",
                    "greater multiple projectiles", "spell cascade">>],
    [key |-> "ice spear",
     supports |-> <<"greater multiple projectiles", "elemental damage",
                    "controlled destruction", "hypothermia">>],
    [key |-> "lightning arrow",
     supports |-> <<"greater multiple projectiles", "chain", "elemental damage",
                    "vicious projectiles">>],
    [key |-> "default attack",
     supports |-> <<"multistrike", "melee splash", "elemental damage with attacks",
                    "ruthless">>],
    [key |-> "default spell",
     supports |-> <<"controlled destruction", "elemental damage",
                    "greater multiple projectiles", "efficacy">>]>>

INEFFICIENT_COMBINATIONS ==
  <<[gems |-> <<"elemental damage with attacks", "physical to lightning">>,
     reason |-> "Reduces physical damage without enough added lightning",
     betterAlternative |->
       "replace Physical to Lightning with Added Fire or Melee Physical Damage"],
    [gems |-> <<"controlled destruction", "elemental focus">>,
     reason |-> "Cannot shock/freeze/ignite with both supports",
     betterAlternative |-> "choose one based on build needs (more damage vs ailments)"],
    [gems |-> <<"multiple projectiles", "lesser multiple projectiles">>,
     reason |-> "Redundant projectile supports",
     betterAlternative |-> "replace LMP with GMP or a damage support"]>>

\* the supports looked for on a skill: its entry, else the generic ones
CriticalSupportsOf(skillName) ==
  LET hits == SelectSeq(CRITICAL_SUPPORTS, LAMBDA e : Includes(skillName, e.key)) IN
  IF Len(hits) > 0 THEN hits[1].supports
  ELSE IF IncludesAny(skillName, {"attack", "strike", "slam"})
       THEN CRITICAL_SUPPORTS[6].supports
       ELSE CRITICAL_SUPPORTS[7].supports

HasSupport(skill, pattern) == Some_(skill.supports, LAMBDA s : Includes(s.name, pattern))

checkCriticalSupports(build, analysis) ==
  Concat([i \in 1..Len(build.skills) |->
    LET skill == build.skills[i]
        criticalSupports == CriticalSupportsOf(skill.skillName)
    IN When(skill.isMainSkill,
            Concat([j \in 1..Len(criticalSupports) |->
              When(~HasSupport(skill, criticalSupports[j]) /\ skill.linkCount < 6,
                   <<Suggestion("gems", "important",
                       Text("Add %s to %s", <<criticalSupports[j], skill.skillName>>),
                       Text("Insert %s in %s link (available socket: %d/6)",
                            <<criticalSupports[j], skill.skillName, skill.linkCount + 1>>),
                       Text("Increases damage output significantly", <<>>))>>)]))])

checkInefficientCombinations(build) ==
  Concat([i \in 1..Len(build.skills) |->
    LET skill == build.skills[i] IN
    Concat([j \in 1..Len(INEFFICIENT_COMBINATIONS) |->
      LET combo == INEFFICIENT_COMBINATIONS[j] IN
      When(\A g \in 1..Len(combo.gems) : HasSupport(skill, combo.gems[g]),
           <<Suggestion("gems", "optional",
               Text("Inefficient support combination in %s", <<skill.skillName>>),
               Text(combo.betterAlternative, <<>>),
               Text(combo.reason, <<>>))>>)])])

checkLinkCount(build, analysis) ==
  Concat([i \in 1..Len(build.skills) |->
    LET skill == build.skills[i] IN
    When(skill.isMainSkill /\ skill.linkCount < 5 /\ analysis.offensiveRating = "low",
         <<Suggestion("gems", "important",
             Text("Upgrade %s to higher link setup", <<skill.skillName>>),
             Text("Find %s a %d-link item (current: %d-link)",
                  <<skill.skillName, skill.linkCount + 1, skill.linkCount>>),
             Text("Each additional link adds a support gem, increasing damage by 20-50%",
                  <<>>))>>)])

checkGemLevels(build) ==
  Concat([i \in 1..Len(build.skills) |->
    LET skill == build.skills[i] IN
    When(skill.isMainSkill /\ skill.gemLevel < 18,
         <<Suggestion("gems", "optional",
             Text("Level up %s gem", <<skill.skillName>>),
             Text("Gain experience to level %s from %d to 20",
                  <<skill.skillName, skill.gemLevel>>),
             Text("Significant damage increase as gem levels add flat damage and multipliers",
                  <<>>))>>)
    \o Concat([j \in 1..Len(skill.supports) |->
         LET support == skill.supports[j] IN
         When(support.gemLevel < 18 /\ support.quality < 15,
              <<Suggestion("gems", "optional",
                  Text("Level up and quality %s", <<support.name>>),
                  Text("Gain experience to level %s from %d to 20, then use Gemcutter's for 20% quality",
                       <<support.name, support.gemLevel>>),
                  Text("Higher gem levels increase support effectiveness by 10-30%",
                       <<>>))>>)])])

suggestGemImprovements(build, analysis) ==
  checkCriticalSupports(build, analysis) \o checkInefficientCombinations(build)
    \o checkLinkCount(build, analysis) \o checkGemLevels(build)

(***************************************************************************)
(* Passive suggester (suggesters/passive-suggester.ts).                    *)
(***************************************************************************)
HasStat(build, pattern, above) ==
  Some_(build.stats, LAMBDA s : Includes(s.name, pattern) /\ s.value > above)

HasKeystone(build, pattern) ==
  Some_(build.passives.keystones, LAMBDA k : Includes(k.name, pattern))

HasWeakness(analysis, patterns) ==
  Some_(analysis.weaknesses, LAMBDA w : \E p \in patterns : TextIncludes(w, p))

checkInefficientPathing(build) ==
  When(build.passives.totalPoints > 90 /\ Len(build.passives.notables) < 8,
       <<Suggestion("passives", "optional",
           Text("Consider pathing to more notable passives", <<>>),
           Text("Allocate nearby notable clusters instead of small nodes", <<>>),
           Text("Notables provide 2-3x the value of normal nodes, improving build efficiency",
                <<>>))>>)

checkMissingDefensives(build, analysis) ==
  IF analysis.defensiveRating \in {"uber_viable", "tanky"} THEN <<>>
  ELSE
    When(HasWeakness(analysis, {"uncapped", "resistance"}),
         <<Suggestion("passives", "critical",
             Text("Allocate resistance notables on passive tree", <<>>),
             Text("Path to resistance clusters like Nullification, Elements, or Diamond Skin",
                  <<>>),
             Text("Increases resistances toward 75% cap, reducing elemental damage taken by 50%+",
                  <<>>))>>)
    \o When(HasWeakness(analysis, {"low life", "life pool"}),
         <<Suggestion("passives", "critical",
             Text("Allocate life notables on passive tree", <<>>),
             Text("Path to life clusters like Written in Blood or Scion life wheel", <<>>),
             Text("Increases maximum life by 30-40%, improving survivability significantly",
                  <<>>))>>)
    \o When(HasStat(build, "energy shield", 2000),
         <<Suggestion("passives", "important",
             Text("Allocate energy shield notables", <<>>),
             Text("Path to ES clusters like Arcane Focus, Psi, or Discipline and Training",
                  <<>>),
             Text("Increases maximum energy shield by 20-30%", <<>>))>>)

checkMissingKeystones(build, analysis) ==
  When(HasStat(build, "energy shield", 3000) /\ ~HasKeystone(build, "chaos inoculation"),
       <<Suggestion("passives", "optional",
           Text("Consider Chaos Inoculation keystone", <<>>),
           Text("Path to Chaos Inoculation on passive tree (requires 100% Intelligence)",
                <<>>),
           Text("Grants chaos immunity, allowing you to ignore chaos resistance", <<>>))>>)
  \o When(HasStat(build, "mana", 500) /\ ~HasKeystone(build, "mind over matter")
            /\ analysis.defensiveRating # "tanky",
       <<Suggestion("passives", "important",
           Text("Consider Mind Over Matter keystone", <<>>),
           Text("Path to Mind Over Matter on passive tree (requires Templar start)", <<>>),
           Text("30% of damage taken from Mana before Life, increasing effective HP by 40%+",
                <<>>))>>)

checkOffensiveUpgrades(build, analysis) ==
  When(analysis.offensiveRating = "low",
       <<Suggestion("passives", "important",
           Text("Allocate damage notables on passive tree", <<>>),
           Text("Path to damage clusters matching your skill type (spell/attack/elemental)",
                <<>>),
           Text("Increases DPS by 20-40%", <<>>))>>)
  \o When(HasStat(build, "critical", 150),
       <<Suggestion("passives", "important",
           Text("Allocate critical strike multiplier notables", <<>>),
           Text("Path to crit multiplier clusters like Assassination or Outlast", <<>>),
           Text("Increases critical strike damage by 30-50%", <<>>))>>)

suggestPassiveImprovements(build, analysis) ==
  checkInefficientPathing(build) \o checkMissingDefensives(build, analysis)
    \o checkMissingKeystones(build, analysis) \o checkOffensiveUpgrades(build, analysis)

(***************************************************************************)
(* Gear suggester (suggesters/gear-suggester.ts).                          *)
(***************************************************************************)
SLOT_PRIORITY ==
  <<"Ring1", "Ring2", "Amulet", "Helmet", "Boots", "Gloves", "Belt", "BodyArmour",
    "Weapon1", "Weapon2">>

RECURSIVE LastValue(_, _, _)
\* the value of the last stat whose name passes, else the default
LastValue(stats, Pred(_), default) ==
  IF Len(stats) = 0 THEN default
  ELSE LET last == stats[Len(stats)] IN
       IF Pred(last.name) THEN last.value
       ELSE LastValue(SubSeq(stats, 1, Len(stats) - 1), Pred, default)

\* the value of the first stat whose name passes, else the default
FirstValue(stats, Pred(_), default) ==
  LET hits == SelectSeq(stats, LAMBDA s : Pred(s.name)) IN
  IF Len(hits) > 0 THEN hits[1].value ELSE default

ResistOf(build, pattern) == LastValue(build.stats, LAMBDA n : Includes(n, pattern), 0)

LifeOf(build) ==
  LastValue(build.stats, LAMBDA n : Includes(n, "life") /\ ~Includes(n, "regen"), 0)

EnergyShieldOf(build) == LastValue(build.stats, LAMBDA n : Includes(n, "energy shield"), 0)

\* `${Math.round(((target - pool) / pool) * 100)}`: Infinity for an empty pool
PercentOf(missing, pool) ==
  IF pool = 0 THEN [infinity |-> TRUE, n |-> 0]
  ELSE [infinity |-> FALSE, n |-> RoundDiv(100 * missing, pool)]

ResistanceSuggestion(element, resist) ==
  Suggestion("gear", "critical",
    Text("Increase %s resistance (%d% more needed)", <<element, 75 - resist>>),
    Text("Find Rings/Amulet/Boots with %d%+ %s resistance (prioritize high elemental resist gear)",
         <<75 - resist, element>>),
    Text("Reaches 75% %s resistance cap, reducing %s damage taken by %d%",
         <<element, element, (75 - resist) * 4>>))

checkResistanceGear(build, analysis) ==
  LET fireResist == ResistOf(build, "fire resist")
      coldResist == ResistOf(build, "cold resist")
      lightningResist == ResistOf(build, "lightning resist")
      chaosResist == ResistOf(build, "chaos resist")
  IN When(fireResist < 75, <<ResistanceSuggestion("fire", fireResist)>>)
     \o When(coldResist < 75, <<ResistanceSuggestion("cold", coldResist)>>)
     \o When(lightningResist < 75, <<ResistanceSuggestion("lightning", lightningResist)>>)
     \o When(chaosResist < 60
               /\ ~Some_(analysis.weaknesses,
                         LAMBDA w : w = Text("Chaos immunity from Chaos Inoculation", <<>>)),
          <<Suggestion("gear", "important",
              Text("Increase chaos resistance (%d% more recommended)", <<60 - chaosResist>>),
              Text("Find Amulet/Rings with chaos resistance or craft on gear", <<>>),
              Text("Increases chaos resistance toward 60%, reducing chaos damage taken",
                   <<>>))>>)

checkLifeESGear(build, analysis) ==
  LET life == LifeOf(build)
      energyShield == EnergyShieldOf(build)
      hasCI == HasKeystone(build, "chaos inoculation")
      targetES == IF hasCI THEN 6000 ELSE 4000
  IN When(~hasCI /\ life < 4000,
          LET needed == 5000 - life
              perSlotNeeded == CeilDiv(needed, 8)
          IN <<Suggestion("gear", "critical",
                 Text("Increase maximum life (%d more needed to reach 5000)", <<needed>>),
                 Text("Upgrade %d gear slots with +%d+ life affixes (target: +70+ life per slot)",
                      <<Min2(3, CeilDiv(perSlotNeeded, 30)), perSlotNeeded>>),
                 Text("Increases life pool to 5000+, improving survivability by %d%",
                      <<PercentOf(5000 - life, life)>>))>>)
     \o When((hasCI \/ energyShield > 2000) /\ energyShield < targetES,
          LET needed == targetES - energyShield
              perSlotNeeded == CeilDiv(needed, 8)
          IN <<Suggestion("gear", IF hasCI THEN "critical" ELSE "important",
                 Text("Increase maximum energy shield (%d more needed to reach %d)",
                      <<needed, targetES>>),
                 Text("Upgrade %d gear slots with +%d+ ES affixes (prioritize high ES base types)",
                      <<Min2(3, CeilDiv(perSlotNeeded, 50)), perSlotNeeded>>),
                 Text("Increases energy shield to %d+, improving survivability by %d%",
                      <<targetES, PercentOf(targetES - energyShield, energyShield)>>))>>)

HasSlot(build, slot) == Some_(build.gear, LAMBDA g : g.slot = slot)

InSlot(build, slot) == Find(build.gear, LAMBDA g : g.slot = slot)

checkEmptySlots(build) ==
  Concat([i \in 1..Len(SLOT_PRIORITY) |->
    When(~HasSlot(build, SLOT_PRIORITY[i]),
         <<Suggestion("gear", "critical",
             Text("Empty gear slot: %s", <<SLOT_PRIORITY[i]>>),
             Text("Fill %s with an appropriate item for your build", <<SLOT_PRIORITY[i]>>),
             Text("Missing gear slot significantly reduces stats and defenses", <<>>))>>)])

checkGearQuality(build, analysis) ==
  LET bodyArmour == InSlot(build, "BodyArmour") IN
  When(analysis.offensiveRating = "low"
         /\ Some_(build.gear, LAMBDA g : g.slot = "Weapon1" \/ g.slot = "Weapon2"),
       <<Suggestion("gear", "important",
           Text("Upgrade weapon for higher damage output", <<>>),
           Text("Find weapon with higher base DPS and elemental damage prefixes", <<>>),
           Text("Weapon base damage scales all damage, increasing total DPS by 30-50%",
                <<>>))>>)
  \o When(IsSome(bodyArmour) /\ Get(bodyArmour).baseType # ""
            /\ IncludesAny(Get(bodyArmour).baseType,
                           {"quilted jacket", "common coat", "garb", "robe"}),
       <<Suggestion("gear", "important",
           Text("Upgrade body armor to higher tier base", <<>>),
           Text("Find body armor with higher base defenses (Glorious Plate, Varnished Coat, etc.)",
                <<>>),
           Text("Higher tier bases provide significantly more armor/ES/evasion", <<>>))>>)

\* /\+([7-9][0-9]|1[0-9][0-9]) to maximum life/i
HasHighLife(affix) == affix.kind = "life" /\ affix.n >= 70 /\ affix.n <= 199

\* /\+([3-9][0-9])% to (fire|cold|lightning) resistance/i
HasHighResist(affix) ==
  affix.kind = "res" /\ affix.n >= 30 /\ affix.n <= 99
    /\ affix.m \in {"Fire", "Cold", "Lightning"}

\* the affix texts that include "damage" or "penetration"
NamesDamage(affix) == affix.kind \in {"increased", "more", "suppress"}

RingSuggestion(ring, slotName) ==
  When(IsSome(ring) /\ (~Some_(Get(ring).affixes, HasHighLife)
                          \/ ~Some_(Get(ring).affixes, HasHighResist)),
       <<Suggestion("gear", "important",
           Text("Upgrade %s with better affixes", <<slotName>>),
           Text("Find %s with high life (+70+) and elemental resistances (+35%+ each)",
                <<slotName>>),
           Text("Rings are excellent sources of life and resistances", <<>>))>>)

checkJewelryUpgrades(build) ==
  LET amulet == InSlot(build, "Amulet") IN
  RingSuggestion(InSlot(build, "Ring1"), "Ring 1")
  \o RingSuggestion(InSlot(build, "Ring2"), "Ring 2")
  \o When(IsSome(amulet) /\ ~Some_(Get(amulet).affixes, NamesDamage),
       <<Suggestion("gear", "optional",
           Text("Upgrade amulet with damage affixes", <<>>),
           Text("Find amulet with elemental damage, spell damage, or penetration", <<>>),
           Text("Amulet can provide significant damage boosts", <<>>))>>)

suggestGearImprovements(build, analysis) ==
  checkEmptySlots(build) \o checkResistanceGear(build, analysis)
    \o checkLifeESGear(build, analysis) \o checkGearQuality(build, analysis)
    \o checkJewelryUpgrades(build)

(***************************************************************************)
(* Utility suggester (suggesters/utility-suggester.ts).                    *)
(***************************************************************************)
CURSE_SKILLS ==
  {"elemental weakness", "frostbite", "flammability", "conductivity", "vulnerability",
   "despair", "enfeeble", "temporal chains", "punishment", "assassin's mark",
   "warlord's mark", "poacher's mark", "proj. weakness", "burning ground", "vortex", "sin"}

MOVEMENT_SKILLS ==
  {"flame dash", "lightning dash", "flicker strike", "whirling blades", "shield charge",
   "leap slam", "blink arrow", "phase run"}

GUARD_SKILLS ==
  {"steelskin", "molten shell", "immortal call", "arctic armour", "guardian",
   "vigilant strike"}

HasSkill(build, patterns) ==
  Some_(build.skills, LAMBDA s : IncludesAny(s.skillName, patterns))

RECURSIVE SuggestedCurse(_, _)
\* the curse named by the last skill that names a damage type
SuggestedCurse(skills, curse) ==
  IF Len(skills) = 0 THEN curse
  ELSE LET n == skills[1].skillName IN
       SuggestedCurse(Tail(skills),
         IF IncludesAny(n, {"fire", "burn", "ignite"}) THEN "Flammability"
         ELSE IF IncludesAny(n, {"cold", "freeze", "chill"}) THEN "Frostbite"
         ELSE IF IncludesAny(n, {"lightning", "shock"}) THEN "Conductivity"
         ELSE IF IncludesAny(n, {"chaos", "poison"}) THEN "Despair"
         ELSE IF IncludesAny(n, {"physical", "bleed"}) THEN "Vulnerability"
         ELSE curse)

checkMissingCurse(build, analysis) ==
  LET hasCurse == HasSkill(build, CURSE_SKILLS)
      hasBlasphemy == Some_(build.skills, LAMBDA s : HasSupport(s, "blasphemy"))
  IN When(~hasCurse,
          <<Suggestion("utility",
              IF analysis.offensiveRating = "low" THEN "important" ELSE "optional",
              Text("Add curse setup for damage amplification", <<>>),
              Text("Add %s curse with Blasphemy Support in 3-4 link",
                   <<SuggestedCurse(build.skills, "Elemental Weakness")>>),
              Text("Curses increase enemy damage taken by 30-40%, significantly boosting DPS",
                   <<>>))>>)
     \o When(hasCurse /\ ~hasBlasphemy,
          <<Suggestion("utility", "optional",
              Text("Consider Blasphemy Support for aura-cursing", <<>>),
              Text("Blasphemy Support + curse skill in 4-link (Blasphemy, curse, curse, Enhance)",
                   <<>>),
              Text("Applies curse automatically in aura, improving clear speed", <<>>))>>)

checkMissingMovementSkill(build, analysis) ==
  LET hasMeleeWeapon ==
        Some_(build.gear,
              LAMBDA g : IncludesAny(g.baseType, {"sword", "axe", "mace", "dagger", "claw"}))
      hasShield == Some_(build.gear, LAMBDA g : Includes(g.baseType, "shield"))
      suggestedSkill ==
        IF hasMeleeWeapon /\ hasShield THEN "Shield Charge"
        ELSE IF hasMeleeWeapon THEN "Leap Slam"
        ELSE IF IncludesAny(build.character.class, {"ranger", "huntress"}) THEN "Blink Arrow"
        ELSE "Flame Dash"
  IN When(~HasSkill(build, MOVEMENT_SKILLS),
          <<Suggestion("utility",
              IF analysis.playstyleType = "clear" THEN "important" ELSE "optional",
              Text("Add movement skill for mobility", <<>>),
              Text("Add %s in 3-link with Faster Casting and Arcane Surge (if applicable)",
                   <<suggestedSkill>>),
              Text("Significantly improves clear speed and bossing ability", <<>>))>>)

checkMissingGuardSkill(build, analysis) ==
  LET clear == analysis.playstyleType = "clear"
      glass == analysis.defensiveRating = "glass_cannon"
      suggestedSkill == IF clear THEN "Molten Shell"
                        ELSE IF glass THEN "Immortal Call" ELSE "Steelskin"
      reason == IF clear THEN "Provides explosion damage and armor"
                ELSE IF glass THEN "Provides physical immunity duration"
                ELSE "Provides burst damage protection"
  IN When(~HasSkill(build, GUARD_SKILLS)
            /\ analysis.defensiveRating \notin {"tanky", "uber_viable"},
          <<Suggestion("utility", "important",
              Text("Add guard skill for burst damage protection", <<>>),
              Text("Add %s in 3-link with Increased Duration and Second Wind",
                   <<suggestedSkill>>),
              Text("%s, preventing one-shot deaths", <<reason>>))>>)

MovementSpeedStat(build) ==
  FirstValue(build.stats, LAMBDA n : IncludesAny(n, {"movement speed", "move speed"}), 0)

checkMissingMobilityUtilities(build, analysis) ==
  When(MovementSpeedStat(build) < 20 /\ analysis.playstyleType = "clear",
       <<Suggestion("utility", "optional",
           Text("Increase movement speed for better clear speed", <<>>),
           Text("Find boots with +25%+ movement speed and use Quartz Flask or Fortitude buff",
                <<>>),
           Text("Increases clear speed by 20-30%", <<>>))>>)
  \o When(~HasSkill(build, {"phasing", "phantom"}) /\ analysis.playstyleType = "clear",
       <<Suggestion("utility", "optional",
           Text("Consider phasing utility for enemy evasion", <<>>),
           Text("Use Quicksilver Flask of Phasing or Phase Run gem", <<>>),
           Text("Prevents enemy hits while moving, improving clear speed", <<>>))>>)
  \o When(~HasSkill(build, {"fortify", "fortification"})
            /\ analysis.defensiveRating # "tanky",
       <<Suggestion("utility", "important",
           Text("Add Fortification for damage reduction", <<>>),
           Text("Link Fortify to movement skill or use Fortification support", <<>>),
           Text("Reduces hit damage taken by 20%, significantly improving survivability",
                <<>>))>>)

\* g.slot?.startsWith("Flask")
IsFlaskSlot(slot) == slot \in {"Flask1", "Flask2", "Flask3", "Flask4", "Flask5"}

checkFlaskUpgrades(build, analysis) ==
  LET flasks == SelectSeq(build.gear, LAMBDA g : IsFlaskSlot(g.slot))
      Has(pattern) == Some_(flasks, LAMBDA f : Includes(f.itemName, pattern))
  IN IF Len(flasks) = 0
     THEN <<Suggestion("utility", "important",
              Text("Use utility flasks for buffs and defenses", <<>>),
              Text("Equip 5 flasks: Quicksilver, Divine, Granite, Quartz, and life/mana flask",
                   <<>>),
              Text("Flasks provide massive temporary buffs during mapping", <<>>))>>
     ELSE When(~Has("quicksilver") /\ analysis.playstyleType = "clear",
            <<Suggestion("utility", "optional",
                Text("Use Quicksilver Flask for movement speed", <<>>),
                Text("Replace one flask with Quicksilver Flask of Adrenaline", <<>>),
                Text("Increases movement speed by 20-40% during flask effect", <<>>))>>)
          \o When(~Has("divine") /\ analysis.defensiveRating # "tanky",
            <<Suggestion("utility", "optional",
                Text("Use Divine Life Flask for instant recovery", <<>>),
                Text("Replace one flask with Divine Life Flask of Staunching/Heat", <<>>),
                Text("Instantly recovers large portion of life, preventing deaths", <<>>))>>)
          \o When(~Has("granite") /\ analysis.defensiveRating # "tanky",
            <<Suggestion("utility", "optional",
                Text("Use Granite Flask for physical mitigation", <<>>),
                Text("Replace one flask with Granite Flask of Iron Skin", <<>>),
                Text("Increases armor by 6000+, reducing physical damage taken", <<>>))>>)

suggestUtilityImprovements(build, analysis) ==
  checkMissingCurse(build, analysis) \o checkMissingMovementSkill(build, analysis)
    \o checkMissingGuardSkill(build, analysis)
    \o checkMissingMobilityUtilities(build, analysis)
    \o checkFlaskUpgrades(build, analysis)

(***************************************************************************)
(* suggest_improvements (tools/suggest_improvements.ts).                   *)
(***************************************************************************)
criticalWeaknesses ==
  {"uncapped", "low life", "no chaos", "low energy shield", "vulnerable", "empty"}

\* a rescoring whose gem rule looks at the defensive rating
scoreSuggestionPriorityByDefence(suggestion, analysis) ==
  LET scored == IF HasWeakness(analysis, criticalWeaknesses)
                THEN [suggestion EXCEPT !.priority = "critical"]
                ELSE suggestion
  IN IF scored.priority = "important"
          /\ analysis.defensiveRating \in {"uber_viable", "tanky"}
          /\ scored.category \in {"passives", "gear", "gems"}
     THEN [scored EXCEPT !.priority = "optional"]
     ELSE scored

scoreSuggestionPriority(suggestion, analysis) ==
  LET addressesCriticalWeakness == HasWeakness(analysis, criticalWeaknesses)
      scored == IF addressesCriticalWeakness /\ suggestion.priority # "critical"
                THEN [suggestion EXCEPT !.priority = "critical"]
                ELSE suggestion
      forDefense == IF scored.priority # "critical"
                         /\ analysis.defensiveRating \in {"uber_viable", "tanky"}
                         /\ scored.category \in {"passives", "gear"}
                         /\ scored.priority = "important"
                    THEN [scored EXCEPT !.priority = "optional"]
                    ELSE scored
  IN IF scored.priority # "critical"
          /\ analysis.offensiveRating = "extreme"
          /\ forDefense.category = "gems"
          /\ forDefense.priority = "important"
     THEN [forDefense EXCEPT !.priority = "optional"]
     ELSE forDefense

\* a key that tells suggestions apart by their action too
DedupKeyWithAction(suggestion) ==
  <<suggestion.category, suggestion.description, suggestion.specificAction>>

\* `${suggestion.category}:${suggestion.description}`
DedupKey(suggestion) == <<suggestion.category, suggestion.description>>

RECURSIVE DedupFrom(_, _)
\* the loop of deduplicateSuggestions, seen holding the keys met so far
DedupFrom(suggestions, seen) ==
  IF Len(suggestions) = 0 THEN <<>>
  ELSE IF DedupKey(suggestions[1]) \in seen THEN DedupFrom(Tail(suggestions), seen)
  ELSE <<suggestions[1]>>
         \o DedupFrom(Tail(suggestions), seen \cup {DedupKey(suggestions[1])})

\* a deduplicateSuggestions whose seen set is kept by the module: it still
\* holds the keys of the suggestions the call before returned
deduplicateSuggestionsAcrossCalls(suggestions) ==
  DedupFrom(suggestions,
            IF IsSome(suggested)
            THEN {DedupKey(s) : s \in Range(Get(suggested).output)}
            ELSE {})

deduplicateSuggestions(suggestions) == DedupFrom(suggestions, {})

priorityWeight(priority) ==
  CASE priority = "critical" -> 3 [] priority = "important" -> 2 [] priority = "optional" -> 1

\* categoryOrder.indexOf(category)
categoryIndex(category) ==
  CASE category = "gear" -> 0 [] category = "passives" -> 1 [] category = "gems" -> 2
    [] category = "utility" -> 3 [] OTHER -> -1

\* a comparator that looks at the priority alone
CompareSuggestionsByPriority(a, b) == priorityWeight(b.priority) - priorityWeight(a.priority)

\* the comparator of sortSuggestions
CompareSuggestions(a, b) ==
  LET priorityDiff == priorityWeight(b.priority) - priorityWeight(a.priority) IN
  IF priorityDiff # 0 THEN priorityDiff
  ELSE categoryIndex(a.category) - categoryIndex(b.category)

RECURSIVE InsertSorted(_, _)
\* x placed behind every element that does not compare above it
InsertSorted(sorted, x) ==
  IF Len(sorted) = 0 THEN <<x>>
  ELSE IF CompareSuggestions(sorted[1], x) <= 0
       THEN <<sorted[1]>> \o InsertSorted(Tail(sorted), x)
       ELSE <<x>> \o sorted

RECURSIVE SortFrom(_, _)
SortFrom(suggestions, sorted) ==
  IF Len(suggestions) = 0 THEN sorted
  ELSE SortFrom(Tail(suggestions), InsertSorted(sorted, suggestions[1]))

\* Array.prototype.sort with the comparator: a stable sort
sortSuggestions(suggestions) == SortFrom(suggestions, <<>>)

CountOf(categoryCount, category) ==
  IF category \in DOMAIN categoryCount THEN categoryCount[category] ELSE 0

RECURSIVE LimitFrom(_, _, _)
\* the loop of limitSuggestions
LimitFrom(suggestions, maxPerCategory, categoryCount) ==
  IF Len(suggestions) = 0 THEN <<>>
  ELSE LET s == suggestions[1]
           count == CountOf(categoryCount, s.category)
       IN IF count < maxPerCategory \/ s.priority = "critical"
          THEN <<s>> \o LimitFrom(Tail(suggestions), maxPerCategory,
                                  (s.category :> count + 1) @@ categoryCount)
          ELSE LimitFrom(Tail(suggestions), maxPerCategory, categoryCount)

RECURSIVE LimitAllFrom(_, _, _)
\* the loop with a cap that holds for every priority
LimitAllFrom(suggestions, maxPerCategory, categoryCount) ==
  IF Len(suggestions) = 0 THEN <<>>
  ELSE LET s == suggestions[1]
           count == CountOf(categoryCount, s.category)
       IN IF count < maxPerCategory
          THEN <<s>> \o LimitAllFrom(Tail(suggestions), maxPerCategory,
                                     (s.category :> count + 1) @@ categoryCount)
          ELSE LimitAllFrom(Tail(suggestions), maxPerCategory, categoryCount)

limitSuggestionsStrictly(suggestions, maxPerCategory) ==
  LimitAllFrom(suggestions, maxPerCategory, <<>>)

limitSuggestions(suggestions, maxPerCategory) ==
  LimitFrom(suggestions, maxPerCategory, <<>>)

\* the merged output of the four suggesters
AllSuggestions(build, analysis) ==
  suggestGemImprovements(build, analysis) \o suggestPassiveImprovements(build, analysis)
    \o suggestGearImprovements(build, analysis)
    \o suggestUtilityImprovements(build, analysis)

\* the merged suggestions, rescored and deduplicated
Deduplicated(build, analysis) ==
  LET allSuggestions == AllSuggestions(build, analysis) IN
  deduplicateSuggestions([i \in 1..Len(allSuggestions) |->
                            scoreSuggestionPriority(allSuggestions[i], analysis)])

\* a handler that numbers the descriptions of the list it returns
SuggestNumbered(build, analysis) ==
  LET limited == limitSuggestions(sortSuggestions(Deduplicated(build, analysis)), 5) IN
  [i \in 1..Len(limited) |->
     [limited[i] EXCEPT !.description = Text("%d. %s", <<i, limited[i].description>>)]]

\* the suggestions of the handler's response
Suggest(build, analysis) ==
  limitSuggestions(sortSuggestions(Deduplicated(build, analysis)), 5)

(***************************************************************************)
(* Builds and analyses a client may send to suggest_improvements.          *)
(***************************************************************************)
SkillSetup(index, skillName, supports, linkCount, isMainSkill) ==
  [id |-> [prefix |-> "skill-", index |-> index], skillName |-> skillName,
   gemLevel |-> 1, quality |-> 0, supports |-> supports, linkCount |-> linkCount,
   isMainSkill |-> isMainSkill]

SupportGem(name) == [name |-> name, gemLevel |-> 1, quality |-> 0]

GearSlot(slot, itemName, baseType, affixes) ==
  [slot |-> slot, itemName |-> itemName, baseType |-> baseType, affixes |-> affixes]

Stat(name, value) == [name |-> name, value |-> value, source |-> "explicit"]

SixSupports ==
  <<SupportGem("Added Fire Damage"), SupportGem("Controlled Destruction"),
    SupportGem("Elemental Focus"), SupportGem("Greater Multiple Projectiles"),
    SupportGem("Spell Echo"), SupportGem("Faster Casting")>>

SkillChoices ==
  {<<>>,
   <<SkillSetup(1, "Fireball", <<>>, 1, TRUE)>>,
   <<SkillSetup(1, "Arc", SixSupports, 7, FALSE)>>,
   <<SkillSetup(1, "Spark", <<SupportGem("Added Lightning Damage")>>, 2, TRUE),
     SkillSetup(2, "Frostbite",
                <<[SupportGem("Added Lightning Damage") EXCEPT !.gemLevel = 5]>>, 2, FALSE)>>}

WornGear ==
  <<GearSlot("Weapon1", "Driftwood Wand", "", <<>>),
    GearSlot("BodyArmour", "Simple Robe", "Simple Robe", <<>>),
    GearSlot("Amulet", "Onyx Amulet", "", <<>>),
    GearSlot("Ring1", "Coral Ring", "",
             <<AffixText("life", 75, ""), AffixText("res", 40, "Fire")>>),
    GearSlot("Ring2", "Coral Ring", "", <<AffixText("life", 20, "")>>),
    GearSlot("Flask1", "Divine Life Flask", "", <<>>)>>

SuggestGearChoices == {<<>>, parseGear(None), WornGear}

StatChoices ==
  {getDefaultStats,
   <<Stat("Life", 5200), Stat("Fire Resistance", 75), Stat("Cold Resistance", 75),
     Stat("Lightning Resistance", 75), Stat("Chaos Resistance", 60)>>,
   <<Stat("Life", 900), Stat("Energy Shield", 3500), Stat("Fire Resistance", 40),
     Stat("Mana", 600), Stat("Critical Strike Chance", 200)>>}

PassiveChoices ==
  {[totalPoints |-> 0, nodes |-> <<>>, keystones |-> <<>>, notables |-> <<>>],
   [totalPoints |-> 95, nodes |-> <<>>,
    keystones |-> <<[id |-> "16226", name |-> "Chaos Inoculation"]>>, notables |-> <<>>]}

SuggestBuilds ==
  {[buildId |-> "", version |-> minVersion, gameVersion |-> "3.25.0",
    character |-> [class |-> "Witch", level |-> Num(1)],
    skills |-> skills, passives |-> passives, gear |-> gear, stats |-> stats,
    parsedAt |-> 1] :
     skills \in SkillChoices, passives \in PassiveChoices,
     gear \in SuggestGearChoices, stats \in StatChoices}

WeaknessChoices ==
  {<<>>,
   <<Text("Slow mapping", <<>>)>>,
   <<Text("Uncapped fire resistance (%d% - need %d% more)", <<40, 35>>),
     Text("Low life pool (%d) - vulnerable to burst damage", <<900>>)>>}

SuggestAnalyses ==
  {[strengths |-> <<>>, weaknesses |-> weaknesses, playstyleType |-> playstyle,
    defensiveRating |-> defensive, offensiveRating |-> offensive, analyzedAt |-> 1] :
     weaknesses \in WeaknessChoices, playstyle \in {"clear", "unknown"},
     defensive \in {"glass_cannon", "tanky"}, offensive \in {"low", "extreme"}}

SuggestInputs ==
  {[build |-> build, analysis |-> analysis] :
     build \in SuggestBuilds, analysis \in SuggestAnalyses}

InitSuggest == InitPure(SuggestInputs)

ApplySuggest ==
  /\ ret = None
  /\ ret' = Some(Suggest(Get(arg).build, Get(arg).analysis))
  /\ UNCHANGED <<arg, parseVars, sessionVars, cacheVars, requestVars>>

NextSuggest == ApplySuggest

SpecSuggest == InitSuggest /\ [][NextSuggest]_vars

CategoriesOfSuggestions == {"gems", "passives", "gear", "utility"}

\* how many suggestions of the list are of the category (and pass the test)
CountIn(suggestions, category, Pred(_)) ==
  Cardinality({i \in 1..Len(suggestions) :
                 suggestions[i].category = category /\ Pred(suggestions[i])})

\* C8: the list suggest returns holds every critical suggestion that survived
\* deduplication; a category keeps at most five entries unless its critical
\* ones are more; a category with more than five survivors, none critical,
\* keeps exactly five; six critical ones in a category are all kept.
C8_CapStep ==
  IsSome(ret) =>
    LET out == Get(ret)
        survivors == Deduplicated(Get(arg).build, Get(arg).analysis)
    IN /\ \A i \in 1..Len(survivors) :
            survivors[i].priority = "critical" => \E j \in 1..Len(out) : out[j] = survivors[i]
       /\ \A c \in CategoriesOfSuggestions :
            LET kept == CountIn(out, c, LAMBDA s : TRUE)
                keptCritical == CountIn(out, c, LAMBDA s : s.priority = "critical")
                critical == CountIn(survivors, c, LAMBDA s : s.priority = "critical")
                all == CountIn(survivors, c, LAMBDA s : TRUE)
            IN /\ kept <= 5 \/ kept = critical
               /\ (critical = 0 /\ all > 5) => kept = 5
               /\ critical >= 6 => keptCritical = critical

\* C8 witness: ten critical gear suggestions all kept, and six optional gem
\* suggestions cut to five
C8_Witness ==
  /\ IsSome(ret)
  /\ LET out == Get(ret)
         survivors == Deduplicated(Get(arg).build, Get(arg).analysis)
     IN /\ CountIn(survivors, "gear", LAMBDA s : s.priority = "critical") >= 6
        /\ CountIn(out, "gear", LAMBDA s : s.priority = "critical") >= 6
        /\ CountIn(survivors, "gems", LAMBDA s : s.priority = "critical") = 0
        /\ CountIn(survivors, "gems", LAMBDA s : s.priority = "optional") > 5
        /\ CountIn(out, "gems", LAMBDA s : TRUE) = 5

(***************************************************************************)
(* analyze_build (tools/analyze_build.ts) and its analyzers.  The build is *)
(* the one a client read from a parse response: JSON writes a NaN level as *)
(* null, which counts as 0 in arithmetic.                                  *)
(***************************************************************************)
LevelNumber(build) == IF build.character.level.nan THEN 0 ELSE build.character.level.n

RECURSIVE Sum(_)
Sum(ns) == IF Len(ns) = 0 THEN 0 ELSE ns[1] + Sum(Tail(ns))

RECURSIVE Product(_)
Product(ns) == IF Len(ns) = 0 THEN 1 ELSE ns[1] * Product(Tail(ns))

RECURSIVE Pow(_, _)
Pow(b, e) == IF e = 0 THEN 1 ELSE b * Pow(b, e - 1)

\* the n of the affixes of one kind, over the whole gear
AffixValues(build, kind) ==
  LET hits == SelectSeq(AllAffixes(build.gear), LAMBDA a : a.kind = kind) IN
  [i \in 1..Len(hits) |-> hits[i].n]

HasStatNamed(build, lowerNames) ==
  Some_(build.stats, LAMBDA s : toLowerCase(s.name) \in lowerNames)

estimateMissingStats(build) ==
  LET totalLife == Sum(AffixValues(build, "life"))
      baseLife == 38 + LevelNumber(build) * 12
      withLife ==
        IF ~HasStatNamed(build, {"life", "maximum life"}) /\ totalLife > 0
        THEN Append(build.stats,
                    [name |-> "Life", value |-> baseLife + totalLife, source |-> "estimated"])
        ELSE build.stats
      totalES == Sum(AffixValues(build, "es"))
  IN [build EXCEPT !.stats =
        IF ~HasStatNamed(build, {"energy shield", "maximum energy shield"}) /\ totalES > 0
        THEN Append(withLife,
                    [name |-> "Energy Shield", value |-> totalES, source |-> "estimated"])
        ELSE withLife]

(***************************************************************************)
(* Offensive analyzer (analyzers/offensive-analyzer.ts).  None of the      *)
(* affix texts above names added damage.  The estimate                     *)
(*   1000 * (1 + inc/100) * prod(1 + m/100) * 1.2^k * 1.4^j                *)
(*        * (1 + (level - 1) * 0.05)                                       *)
(* is kept as the exact fraction DpsNumerator / DpsDenominator.            *)
(***************************************************************************)
DamageSupportCount(build) ==
  Sum([i \in 1..Len(build.skills) |->
         Len(SelectSeq(build.skills[i].supports,
                       LAMBDA s : IncludesAny(s.name, {"damage", "melee", "attack", "spell",
                                                       "elemental"})))])

MoreSupportCount(build) ==
  Sum([i \in 1..Len(build.skills) |->
         Len(SelectSeq(build.skills[i].supports, LAMBDA s : Includes(s.name, "more")))])

DpsNumerator(build) ==
  LET more == AffixValues(build, "more") IN
  (100 + Sum(AffixValues(build, "increased")))
    * Product([i \in 1..Len(more) |-> 100 + more[i]])
    * Pow(6, DamageSupportCount(build)) * Pow(7, MoreSupportCount(build))
    * (19 + LevelNumber(build))

DpsDenominator(build) ==
  2 * Pow(100, Len(AffixValues(build, "more")))
    * Pow(5, DamageSupportCount(build) + MoreSupportCount(build))

IsDpsStat(name) == IncludesAny(name, {"dps", "damage per second"})

\* an estimate that never looks for an explicit stat
estimateDPSFromGearAlone(build) == RoundDiv(DpsNumerator(build), DpsDenominator(build))

estimateDPS(build) ==
  IF Some_(build.stats, LAMBDA s : IsDpsStat(s.name))
  THEN FirstValue(build.stats, IsDpsStat, 0)
  ELSE RoundDiv(DpsNumerator(build), DpsDenominator(build))

\* a rating whose first threshold is a thousand
classifyOffensiveByThousand(dps) ==
  IF dps < 1000 THEN "low"
  ELSE IF dps < 500000 THEN "moderate"
  ELSE IF dps < 1000000 THEN "high"
  ELSE "extreme"

classifyOffensive(dps) ==
  IF dps < 100000 THEN "low"
  ELSE IF dps < 500000 THEN "moderate"
  ELSE IF dps < 1000000 THEN "high"
  ELSE "extreme"

\* DAMAGE_TYPES, in the order of its keys
DAMAGE_TYPES ==
  <<[type |-> "FIRE", keywords |-> <<"fire", "burn", "ignite">>],
    [type |-> "COLD", keywords |-> <<"cold", "freeze", "chill", "frostbite">>],
    [type |-> "LIGHTNING", keywords |-> <<"lightning", "shock", "arc">>],
    [type |-> "CHAOS", keywords |-> <<"chaos", "doom", "wither">>],
    [type |-> "PHYSICAL", keywords |-> <<"physical", "bleed", "impale">>],
    [type |-> "ELEMENTAL", keywords |-> <<"elemental", "elemental damage">>]>>

\* type.charAt(0).toUpperCase() + type.slice(1).toLowerCase()
Capitalized(type) ==
  CASE type = "FIRE" -> "Fire" [] type = "COLD" -> "Cold" [] type = "LIGHTNING" -> "Lightning"
    [] type = "CHAOS" -> "Chaos" [] type = "PHYSICAL" -> "Physical"
    [] type = "ELEMENTAL" -> "Elemental"

\* the names the loops of identifyDamageType visit, in order, with the
\* (doubled) weight of a keyword found in each
DamageNamesVisited(build) ==
  Concat([i \in 1..Len(build.skills) |->
    <<[name |-> build.skills[i].skillName, weight |-> 2]>>
    \o [j \in 1..Len(build.skills[i].supports) |->
          [name |-> build.skills[i].supports[j].name, weight |-> 1]]])

\* damageTypeCounts[key] || 0, the counts being a list of [type, count] in
\* the order the keys were first written
CountUnder(counts, key) ==
  LET hits == SelectSeq(counts, LAMBDA c : c.type = key) IN
  IF Len(hits) > 0 THEN hits[1].count ELSE 0

\* damageTypeCounts[type] = (damageTypeCounts[type] || 0) + weight
Counted(counts, type, weight) ==
  IF \E i \in 1..Len(counts) : counts[i].type = type
  THEN [i \in 1..Len(counts) |->
          IF counts[i].type = type THEN [counts[i] EXCEPT !.count = @ + weight]
          ELSE counts[i]]
  ELSE Append(counts, [type |-> type, count |-> weight])

RECURSIVE CountKeywords(_, _, _, _)
\* the two inner loops over one name: types from position t, keywords from k
CountKeywords(counts, visited, t, k) ==
  IF t > Len(DAMAGE_TYPES) THEN counts
  ELSE IF k > Len(DAMAGE_TYPES[t].keywords) THEN CountKeywords(counts, visited, t + 1, 1)
  ELSE CountKeywords(IF Includes(visited.name, DAMAGE_TYPES[t].keywords[k])
                     THEN Counted(counts, DAMAGE_TYPES[t].type, visited.weight)
                     ELSE counts,
                     visited, t, k + 1)

RECURSIVE CountNames(_, _)
CountNames(counts, visited) ==
  IF Len(visited) = 0 THEN counts
  ELSE CountNames(CountKeywords(counts, visited[1], 1, 1), Tail(visited))

RECURSIVE HighestFrom(_, _, _)
\* the loop over the entries: a count above the maximum so far takes over
HighestFrom(counts, maxCount, primaryType) ==
  IF Len(counts) = 0 THEN [maxCount |-> maxCount, primaryType |-> primaryType]
  ELSE IF counts[1].count > maxCount
       THEN HighestFrom(Tail(counts), counts[1].count, Capitalized(counts[1].type))
       ELSE HighestFrom(Tail(counts), maxCount, primaryType)

\* identifyDamageType over the doubled counts; the counts are written under
\* the keys of DAMAGE_TYPES and read back under "Fire", "Cold", "Lightning"
identifyDamageType(build) ==
  LET damageTypeCounts == CountNames(<<>>, DamageNamesVisited(build))
      highest == HighestFrom(damageTypeCounts, 0, "unknown")
      elementalCount == CountUnder(damageTypeCounts, "Fire")
                          + CountUnder(damageTypeCounts, "Cold")
                          + CountUnder(damageTypeCounts, "Lightning")
  IN IF elementalCount >= 4 /\ elementalCount = highest.maxCount THEN "Elemental"
     ELSE highest.primaryType

analyzeOffense(build) ==
  LET estimatedDPS == estimateDPS(build) IN
  [rating |-> classifyOffensive(estimatedDPS), estimatedDPS |-> estimatedDPS]

(***************************************************************************)
(* Playstyle detector (analyzers/playstyle-detector.ts).  Scores are kept  *)
(* doubled, so that the half points of the stats stay whole numbers.       *)
(***************************************************************************)
CLEAR_SPEED_INDICATORS ==
  [gems |-> <<"melee splash", "greater multiple projectiles",
              "lesser multiple projectiles", "chain", "pierce", "fork", "area of effect",
              "increased aoe", "concentrated effect", "ancestral call",
              "vicious projectiles">>,
   passives |-> <<"area of effect", "movement speed", "attack speed", "cast speed",
                  "cooldown recovery", "clear speed", "incursion", "delirium">>,
   stats |-> <<"movement speed", "attack speed", "cast speed", "area of effect", "radius">>]

BOSS_INDICATORS ==
  [gems |-> <<"concentrated effect", "elemental focus", "controlled destruction",
              "single target", "brutality", "fire penetration", "cold penetration",
              "lightning penetration", "elemental penetration", "bane", "wither">>,
   passives |-> <<"single target", "damage", "critical strike", "critical multiplier",
                  "penetration", "spell damage", "attack damage", "projectile damage">>,
   stats |-> <<"critical strike chance", "critical strike multiplier", "penetration">>]

\* the names the indicator loops visit, in order, with the points (doubled)
\* a new indicator found in each scores
NamesVisited(build, table) ==
  Concat([i \in 1..Len(build.skills) |->
    <<[name |-> build.skills[i].skillName, from |-> table.gems, points |-> 4]>>
    \o [j \in 1..Len(build.skills[i].supports) |->
          [name |-> build.skills[i].supports[j].name, from |-> table.gems, points |-> 2]]])
  \o [i \in 1..Len(build.passives.notables) |->
        [name |-> build.passives.notables[i].name, from |-> table.passives, points |-> 2]]

RECURSIVE ScoreNames(_, _, _)
\* count and indicators over the visited names; an indicator scores once
ScoreNames(visited, count, indicators) ==
  IF Len(visited) = 0 THEN count
  ELSE LET v == visited[1]
           found == {p \in Range(v.from) : Includes(v.name, p)} \ indicators
       IN ScoreNames(Tail(visited), count + v.points * Cardinality(found),
                     indicators \cup found)

\* the half points of the stats: one (doubled) for every stat and indicator
ScoreStats(build, table, above) ==
  Sum([i \in 1..Len(build.stats) |->
         IF build.stats[i].value > above
         THEN Cardinality({k \in 1..Len(table.stats) :
                             Includes(build.stats[i].name, table.stats[k])})
         ELSE 0])

countClearSpeedIndicators(build) ==
  ScoreNames(NamesVisited(build, CLEAR_SPEED_INDICATORS), 0, {})
    + ScoreStats(build, CLEAR_SPEED_INDICATORS, 20)

countBossIndicators(build) ==
  ScoreNames(NamesVisited(build, BOSS_INDICATORS), 0, {})
    + ScoreStats(build, BOSS_INDICATORS, 30)

IsMovementSpeed(name) == IncludesAny(name, {"movement speed", "move speed"})

getMovementSpeed(build) ==
  IF Some_(build.stats, LAMBDA s : IsMovementSpeed(s.name))
  THEN FirstValue(build.stats, IsMovementSpeed, 0)
  ELSE Sum(AffixValues(build, "speed"))

Abs(n) == IF n < 0 THEN -n ELSE n

\* a classification that asks no movement speed of a clear build
classifyPlaystyleWithoutSpeed(clearScore, bossScore, movementSpeed) ==
  IF clearScore + bossScore < 2 THEN "unknown"
  ELSE IF 2 * clearScore > 3 * bossScore THEN "clear"
  ELSE IF 2 * bossScore > 3 * clearScore THEN "boss"
  ELSE IF Abs(clearScore - bossScore) < 6 THEN "hybrid"
  ELSE IF clearScore > bossScore THEN "clear"
  ELSE "boss"

\* classifyPlaystyle over the doubled scores
classifyPlaystyle(clearScore, bossScore, movementSpeed) ==
  IF clearScore + bossScore < 2 THEN "unknown"
  ELSE IF 2 * clearScore > 3 * bossScore /\ movementSpeed > 20 THEN "clear"
  ELSE IF 2 * bossScore > 3 * clearScore THEN "boss"
  ELSE IF Abs(clearScore - bossScore) < 6 THEN "hybrid"
  ELSE IF clearScore > bossScore THEN "clear"
  ELSE "boss"

detectPlaystyle(build) ==
  [type |-> classifyPlaystyle(countClearSpeedIndicators(build), countBossIndicators(build),
                              getMovementSpeed(build))]


(***************************************************************************)
(* Weakness detector (analyzers/weakness-detector.ts).                     *)
(***************************************************************************)
WEAKNESS_INDICATORS ==
  [lowLife |-> 3000, lowES |-> 2000, uncappedResist |-> 75, lowChaosResist |-> 0,
   lowMovementSpeed |-> 15]

HasChaosInoculationKeystone(build) ==
  Some_(build.passives.keystones,
        LAMBDA k : Includes(k.name, "chaos inoculation") \/ k.id = "16226")

UncappedResistance(fmt, resist) ==
  When(resist < WEAKNESS_INDICATORS.uncappedResist, <<Text(fmt, <<resist, 75 - resist>>)>>)

HasAffixOfKind(build, kinds) == Some_(AllAffixes(build.gear), LAMBDA a : a.kind \in kinds)

detectDefensiveWeaknesses(build) ==
  LET life == LifeOf(build)
      energyShield == EnergyShieldOf(build)
      chaosResist == ResistOf(build, "chaos resist")
      armor == LastValue(build.stats, LAMBDA n : IncludesAny(n, {"armour", "armor"}), 0)
      evasion == LastValue(build.stats, LAMBDA n : Includes(n, "evasion"), 0)
      hasCI == HasChaosInoculationKeystone(build)
      hasBlock == HasAffixOfKind(build, {"block"})
      hasSpellSuppression == HasAffixOfKind(build, {"suppress"})
  IN (IF ~hasCI
      THEN When(life < WEAKNESS_INDICATORS.lowLife,
                <<Text("Low life pool (%d) - vulnerable to burst damage", <<life>>)>>)
      ELSE When(energyShield < WEAKNESS_INDICATORS.lowES,
                <<Text("Low energy shield (%d) for CI build", <<energyShield>>)>>))
     \o UncappedResistance("Uncapped fire resistance (%d% - need %d% more)",
                           ResistOf(build, "fire resist"))
     \o UncappedResistance("Uncapped cold resistance (%d% - need %d% more)",
                           ResistOf(build, "cold resist"))
     \o UncappedResistance("Uncapped lightning resistance (%d% - need %d% more)",
                           ResistOf(build, "lightning resist"))
     \o When(~hasCI /\ chaosResist <= WEAKNESS_INDICATORS.lowChaosResist,
             <<Text("No chaos resistance (%d%) - vulnerable to chaos damage",
                    <<chaosResist>>)>>)
     \o When(armor < 2000 /\ evasion < 2000 /\ ~hasCI,
             <<Text("Low armor and evasion - poor physical damage mitigation", <<>>)>>)
     \o When(~hasBlock /\ ~hasSpellSuppression /\ armor < 5000,
             <<Text("No block or spell suppression - relies solely on life/ES", <<>>)>>)

\* the damage types the skill names mention, in the order they are first met
DamageTypesNamed(build) ==
  {t \in {"fire", "cold", "lightning", "chaos", "physical"} : HasSkill(build, {t})}

MainSkills(build) == SelectSeq(build.skills, LAMBDA s : s.isMainSkill)

detectOffensiveWeaknesses(build) ==
  LET types == DamageTypesNamed(build)
      main == MainSkills(build)
      lowLinks == SelectSeq(main, LAMBDA s : s.linkCount < 5)
      dps == FirstValue(build.stats, IsDpsStat, 0)
  IN When(Cardinality(types) = 1,
          <<Text("Single-element damage (%s) - struggles against resistant enemies",
                 <<CHOOSE t \in types : TRUE>>)>>)
     \o [i \in 1..Len(lowLinks) |->
           Text("Main skill in %d-link (recommend 6-link for max damage)",
                <<lowLinks[i].linkCount>>)]
     \o When(Len(main) > 0
               /\ ~Some_(main[1].supports, LAMBDA s : IncludesAny(s.name, {"damage", "more"}))
               /\ Len(main[1].supports) > 0,
             <<Text("Main skill lacks damage support gems", <<>>)>>)
     \o When(dps > 0 /\ dps < 100000,
             <<Text("Low DPS (%dk) - clear speed will be slow", <<RoundDiv(dps, 1000)>>)>>)

WeaknessCurseSkills ==
  {"blasphemy", "curse on hit", "vulnerability", "elemental weakness", "frostbite",
   "conductivity", "flammability", "despair", "enfeeble", "temporal chains", "punishment"}

WeaknessMovementSkills ==
  {"flicker strike", "flame dash", "lightning dash", "whirling blades", "shield charge",
   "leap slam", "blink arrow", "dash"}

WeaknessGuardSkills ==
  {"steelskin", "guardian", "molten shell", "immortal call", "arctic armour"}

HasSupportNamed(build, patterns) ==
  Some_(build.skills,
        LAMBDA s : Some_(s.supports, LAMBDA g : IncludesAny(g.name, patterns)))

detectUtilityWeaknesses(build) ==
  LET hasCurse == HasSkill(build, WeaknessCurseSkills)
                    \/ HasSupportNamed(build, WeaknessCurseSkills)
      hasMovementSkill == HasSkill(build, WeaknessMovementSkills)
      movementSpeed == FirstValue(build.stats, IsMovementSpeed, 0)
      hasGuardSkill == HasSkill(build, WeaknessGuardSkills)
      hasRegen == Some_(build.stats,
                        LAMBDA s : Includes(s.name, "regen")
                                     /\ IncludesAny(s.name, {"life", "energy shield"}))
      hasLeech == Some_(build.stats, LAMBDA s : Includes(s.name, "leech"))
  IN When(~hasCurse, <<Text("No curse setup - missing enemy debuff potential", <<>>)>>)
     \o When(~hasMovementSkill, <<Text("No movement skill - poor mobility", <<>>)>>)
     \o When(~hasMovementSkill /\ movementSpeed < WEAKNESS_INDICATORS.lowMovementSpeed,
             <<Text("Low movement speed (%d%) - slow clear speed", <<movementSpeed>>)>>)
     \o When(~hasGuardSkill, <<Text("No guard skill - vulnerable to burst damage", <<>>)>>)
     \o When(~hasRegen /\ ~hasLeech,
             <<Text("No life/ES regeneration or leech - poor sustain", <<>>)>>)

NoWeaknessesMessage == Text("No obvious weaknesses detected - well-rounded build", <<>>)

detectWeaknesses(build) ==
  LET defenses == detectDefensiveWeaknesses(build)
      offenses == detectOffensiveWeaknesses(build)
      utilities == detectUtilityWeaknesses(build)
      allWeaknesses == defenses \o offenses \o utilities
  IN [weaknesses |-> IF Len(allWeaknesses) = 0 THEN <<NoWeaknessesMessage>>
                     ELSE allWeaknesses,
      categories |-> [defenses |-> defenses, offenses |-> offenses,
                      utilities |-> utilities]]


(***************************************************************************)
(* Strength detector (analyzers/strength-detector.ts).  Its patterns are   *)
(* matched against the affix texts listed with AffixText.                  *)
(***************************************************************************)
KEYSTONE_STRENGTHS ==
  <<[key |-> "Chaos Inoculation", description |-> "Chaos immunity from Chaos Inoculation"],
    [key |-> "CI", description |-> "Chaos immunity from Chaos Inoculation"],
    [key |-> "Mind Over Matter",
     description |-> "Mind Over Matter - 30% of damage taken from Mana before Life"],
    [key |-> "MoM",
     description |-> "Mind Over Matter - 30% of damage taken from Mana before Life"],
    [key |-> "Eldritch Battery",
     description |-> "Eldritch Battery - Energy Shield protects Mana"],
    [key |-> "Iron Reflexes", description |-> "Iron Reflexes - All Evasion converted to Armor"],
    [key |-> "Elemental Overload",
     description |-> "Elemental Overload - 40% more elemental damage for less crit"],
    [key |-> "Point Blank",
     description |-> "Point Blank - Close-range projectile damage bonus"],
    [key |-> "Acrobatics", description |-> "Acrobatics - 30% chance to dodge attacks"],
    [key |-> "Phase Acrobatics",
     description |-> "Phase Acrobatics - 30% chance to dodge spells"],
    [key |-> "Resolute Technique",
     description |-> "Resolute Technique - Hits can't be evaded"],
    [key |-> "Unwavering Stance", description |-> "Unwavering Stance - Cannot be stunned"],
    [key |-> "Vaal Pact", description |-> "Vaal Pact - Instant life leech"],
    [key |-> "Ghost Reaver",
     description |-> "Ghost Reaver - Energy Shield leech instead of Life"]>>

\* key.toLowerCase() of the keys above
LowerKey(key) ==
  CASE key = "Chaos Inoculation" -> "chaos inoculation"
    [] key = "CI" -> "ci"
    [] key = "Mind Over Matter" -> "mind over matter"
    [] key = "MoM" -> "mom"
    [] key = "Eldritch Battery" -> "eldritch battery"
    [] key = "Iron Reflexes" -> "iron reflexes"
    [] key = "Elemental Overload" -> "elemental overload"
    [] key = "Point Blank" -> "point blank"
    [] key = "Acrobatics" -> "acrobatics"
    [] key = "Phase Acrobatics" -> "phase acrobatics"
    [] key = "Resolute Technique" -> "resolute technique"
    [] key = "Unwavering Stance" -> "unwavering stance"
    [] key = "Vaal Pact" -> "vaal pact"
    [] key = "Ghost Reaver" -> "ghost reaver"

RECURSIVE KeystonesFrom(_, _)
\* the loop of detectKeystones: an unknown keystone is named only while the
\* list is still empty
KeystonesFrom(keystones, found) ==
  IF Len(keystones) = 0 THEN found
  ELSE LET k == keystones[1]
           known == Find(KEYSTONE_STRENGTHS,
                         LAMBDA e : Includes(k.name, LowerKey(e.key)) \/ k.id = e.key)
           withKnown == IF IsSome(known)
                        THEN Append(found, Text(Get(known).description, <<>>))
                        ELSE found
       IN KeystonesFrom(Tail(keystones),
                        IF Len(withKnown) = 0 /\ k.name # ""
                        THEN <<Text("Keystone: %s", <<k.name>>)>>
                        ELSE withKnown)

detectKeystones(build) == KeystonesFrom(build.passives.keystones, <<>>)

\* `${capped.join(", ")} resistance capped at 75%`
CappedResistances(fire, cold, lightning) ==
  LET capped == When(fire >= 75, <<"Fire">>) \o When(cold >= 75, <<"Cold">>)
                  \o When(lightning >= 75, <<"Lightning">>)
  IN When(Len(capped) > 0, <<Text("%s resistance capped at 75%", <<capped>>)>>)

\* the largest n among the affixes that pass, 0 when there is none
MaxAffix(build, Pred(_)) ==
  LET hits == SelectSeq(AllAffixes(build.gear), Pred) IN
  IF Len(hits) = 0 THEN 0
  ELSE CHOOSE n \in {hits[i].n : i \in 1..Len(hits)} :
         \A i \in 1..Len(hits) : hits[i].n <= n

\* the first of the armour and evasion affixes of 500 to 1999 decides which
\* of the two strengths is listed first
HighArmorAndEvasion(build) ==
  LET high == SelectSeq(AllAffixes(build.gear),
                        LAMBDA a : a.kind \in {"armour", "evasion"}
                                     /\ a.n >= 500 /\ a.n <= 1999)
      armor == Text("High armor from gear", <<>>)
      evasion == Text("High evasion from gear", <<>>)
      hasArmor == Some_(high, LAMBDA a : a.kind = "armour")
      hasEvasion == Some_(high, LAMBDA a : a.kind = "evasion")
  IN IF Len(high) = 0 THEN <<>>
     ELSE IF high[1].kind = "armour" THEN <<armor>> \o When(hasEvasion, <<evasion>>)
     ELSE <<evasion>> \o When(hasArmor, <<armor>>)

detectDefensiveStrengths(build) ==
  LET fireResist == ResistOf(build, "fire resist")
      coldResist == ResistOf(build, "cold resist")
      lightningResist == ResistOf(build, "lightning resist")
      chaosResist == ResistOf(build, "chaos resist")
      life == LifeOf(build)
      energyShield == EnergyShieldOf(build)
      maxBlock == MaxAffix(build, LAMBDA a : a.kind = "block")
      spellSuppression ==
        MaxAffix(build, LAMBDA a : a.kind = "suppress" /\ a.n >= 10 /\ a.n <= 99)
  IN (IF fireResist >= 75 /\ coldResist >= 75 /\ lightningResist >= 75
      THEN <<Text("75% all elemental resistances (capped)", <<>>)>>
      ELSE CappedResistances(fireResist, coldResist, lightningResist))
     \o When(chaosResist >= 60, <<Text("High chaos resistance (%d%)", <<chaosResist>>)>>)
     \o (IF life > 5000 THEN <<Text("Very high life pool (%d)", <<life>>)>>
         ELSE When(life > 3500, <<Text("High life pool (%d)", <<life>>)>>))
     \o (IF energyShield > 5000
         THEN <<Text("Very high energy shield (%d)", <<energyShield>>)>>
         ELSE When(energyShield > 3500,
                   <<Text("High energy shield (%d)", <<energyShield>>)>>))
     \o HighArmorAndEvasion(build)
     \o (IF maxBlock >= 75 THEN <<Text("Maximum block chance (75%)", <<>>)>>
         ELSE When(maxBlock >= 50, <<Text("High block chance (%d%)", <<maxBlock>>)>>))
     \o When(spellSuppression >= 80, <<Text("High spell suppression chance", <<>>)>>)


CountAffixes(build, Pred(_)) == Len(SelectSeq(AllAffixes(build.gear), Pred))

detectOffensiveStrengths(build) ==
  LET damageSupports ==
        Sum([i \in 1..Len(build.skills) |->
               Len(SelectSeq(build.skills[i].supports,
                             LAMBDA s : IncludesAny(s.name, {"damage", "attack", "spell",
                                                             "elemental", "multistrike"})))])
      moreDamageCount == CountAffixes(build, LAMBDA a : a.kind = "more")
      highIncDamage == CountAffixes(build, LAMBDA a : a.kind = "increased" /\ a.n >= 50)
      highCrit == SelectSeq(AllAffixes(build.gear), LAMBDA a : a.kind = "crit" /\ a.n >= 30)
      sixLinked == SelectSeq(build.skills, LAMBDA s : s.linkCount >= 6 /\ s.isMainSkill)
  IN When(damageSupports >= 5,
          <<Text("Many damage support gems (high damage output)", <<>>)>>)
     \o [i \in 1..Len(highCrit) |->
           Text("High critical strike multiplier from gear", <<>>)]
     \o When(moreDamageCount >= 2, <<Text("Multiple 'more damage' modifiers", <<>>)>>)
     \o When(highIncDamage >= 3,
             <<Text("Many high-value increased damage modifiers", <<>>)>>)
     \o When(Len(sixLinked) > 0,
             <<Text("6-link main skill (%s)",
                    <<IF Len(sixLinked) > 0 THEN sixLinked[1].skillName ELSE "">>)>>)

UTILITY_STRENGTHS ==
  [movement |-> {"movement speed", "move speed", "base movement speed"},
   curses |-> {"blasphemy", "curse on hit", "aura"},
   auras |-> {"aura", "banner", "herald"},
   regen |-> {"life regeneration", "life regen", "energy shield regeneration", "es regen"},
   leech |-> {"life leech", "energy shield leech", "mana leech"},
   fortification |-> {"fortification", "fortify"},
   phasing |-> {"phasing", "phantom dash"}]

StrengthMovementSkills ==
  {"flicker strike", "flame dash", "lightning dash", "whirling blades", "shield charge",
   "leap slam", "blink arrow"}

detectUtilityStrengths(build) ==
  LET totalMovementSpeed == FirstValue(build.stats, IsMovementSpeed, 0)
      hasMovementSkill == HasSkill(build, StrengthMovementSkills)
      hasCurse == HasSupportNamed(build, UTILITY_STRENGTHS.curses)
      hasAura == HasSupportNamed(build, UTILITY_STRENGTHS.auras)
      hasRegen == Some_(build.stats, LAMBDA s : IncludesAny(s.name, UTILITY_STRENGTHS.regen))
      hasLeech == Some_(build.stats, LAMBDA s : IncludesAny(s.name, UTILITY_STRENGTHS.leech))
  IN (IF totalMovementSpeed > 30
      THEN <<Text("High movement speed (%d%)", <<totalMovementSpeed>>)>>
      ELSE When(totalMovementSpeed > 15,
                <<Text("Moderate movement speed (%d%)", <<totalMovementSpeed>>)>>))
     \o When(hasMovementSkill, <<Text("Movement skill for mobility", <<>>)>>)
     \o When(hasCurse, <<Text("Curse setup for debuffing enemies", <<>>)>>)
     \o When(hasAura, <<Text("Aura setup for buffs", <<>>)>>)
     \o When(hasRegen, <<Text("Health/ES regeneration for sustain", <<>>)>>)
     \o When(hasLeech, <<Text("Life/ES leech for sustain", <<>>)>>)

detectStrengths(build) ==
  [categories |-> [keystones |-> detectKeystones(build),
                   defenses |-> detectDefensiveStrengths(build),
                   offenses |-> detectOffensiveStrengths(build),
                   utilities |-> detectUtilityStrengths(build)]]

(***************************************************************************)
(* The handler of analyze_build: the analysis it returns for a build at    *)
(* time t.                                                                 *)
(***************************************************************************)
Analyze(build, t) ==
  LET buildWithEstimatedStats == estimateMissingStats(build)
      defensiveAnalysis == analyzeDefense(buildWithEstimatedStats)
      offensiveAnalysis == analyzeOffense(buildWithEstimatedStats)
      playstyleDetection == detectPlaystyle(buildWithEstimatedStats)
      strengthDetection == detectStrengths(buildWithEstimatedStats)
      weaknessDetection == detectWeaknesses(buildWithEstimatedStats)
  IN [strengths |-> strengthDetection.categories.keystones
                      \o strengthDetection.categories.defenses
                      \o strengthDetection.categories.offenses
                      \o strengthDetection.categories.utilities,
      weaknesses |-> weaknessDetection.categories.defenses
                       \o weaknessDetection.categories.offenses
                       \o weaknessDetection.categories.utilities,
      playstyleType |-> playstyleDetection.type,
      defensiveRating |-> defensiveAnalysis.rating,
      offensiveRating |-> offensiveAnalysis.rating,
      analyzedAt |-> t]


(***************************************************************************)
(* A session of the server: a client parses build codes, has the build of  *)
(* the last successful parse analysed, and asks for suggestions with the   *)
(* build and the analysis it holds, in any order, under the clock.          *)
(***************************************************************************)
Item(slot, name, mods) == [slot |-> slot, name |-> name, baseType |-> "", mods |-> mods]


OneBareSkill(name) == Some([Skill |-> One(Skill(name, None))])

\* a sparse document at level 100 wearing a helmet and a ring
SparseGearedDoc ==
  Pob(Min, Some(BuildSection("Ranger", [kind |-> "number", n |-> 100])),
      OneBareSkill("Fireball"), None,
      Some([Item |-> Many(<<Item("Helmet", "Hubris Circlet",
                                 <<AffixText("life", 80, ""), AffixText("res", 40, "Fire")>>),
                            Item("Ring1", "Coral Ring",
                                 <<AffixText("speed", 30, "")>>)>>)]),
      None)

\* a build with explicit stats, two supported skills and capped defences
StrongDoc ==
  Pob(Min, Some(BuildSection("Witch", [kind |-> "number", n |-> 95])),
      Some([Skill |-> Many(<<
        [name |-> "Spark", level |-> 20, quality |-> 0, mainActive |-> TRUE,
         gems |-> Some([Gem |-> Many(<<Gem("Support", "Greater Multiple Projectiles"),
                                       Gem("Support", "Added Lightning Damage")>>)])],
        Skill("Steelskin", None)>>)]),
      Some([nodes |-> <<"57279">>]), None,
      Some([Stat |-> Many(<<[name |-> "Life", value |-> 5200],
                            [name |-> "Fire Resistance", value |-> 75],
                            [name |-> "Cold Resistance", value |-> 75],
                            [name |-> "Lightning Resistance", value |-> 75],
                            [name |-> "Chaos Resistance", value |-> 60],
                            [name |-> "Movement Speed", value |-> 35],
                            [name |-> "DPS", value |-> 600000]>>)]))

SessionDocs == {SparseGearedDoc, StrongDoc}

SessionInputs == {Code(GoodText, ZlibFramed(TextOf(XmlOf(Some(doc))))) : doc \in SessionDocs}

ParseTool == /\ \E x \in SessionInputs : Parse(x)
             /\ UNCHANGED <<pureVars, sessionVars, cacheVars, requestVars>>

\* analyze_build on the build of the last response, if that was a success
AnalyzeTool ==
  /\ Succeeded
  /\ LET build == Get(Get(response).build) IN
     analysed' = Some([code |-> Get(lastInput), build |-> build,
                       analysis |-> Analyze(build, now)])
  /\ UNCHANGED <<parseVars, pureVars, suggested, remembered, cacheVars, requestVars>>

\* suggest_improvements on the build and the analysis the client holds
SuggestTool ==
  /\ IsSome(analysed)
  /\ LET input == [build |-> Get(analysed).build, analysis |-> Get(analysed).analysis]
         call == [input |-> input, output |-> Suggest(input.build, input.analysis),
                  at |-> now]
     IN /\ suggested' = Some(call)
        /\ remembered' = IF IsSome(remembered) THEN remembered ELSE Some(call)
  /\ UNCHANGED <<parseVars, pureVars, analysed, cacheVars, requestVars>>

MaxSessionTime == 2

SessionTick == /\ now < MaxSessionTime
               /\ now' = now + 1
               /\ UNCHANGED <<buildCache, keystonesData, response, lastInput, ran, served>>
               /\ UNCHANGED <<pureVars, sessionVars, cacheVars, requestVars>>

NextSession == ParseTool \/ AnalyzeTool \/ SuggestTool \/ SessionTick

SpecSession == Init /\ [][NextSession]_vars

BuildSections ==
  {None, Some(BuildSection("Ranger", [kind |-> "number", n |-> 100])),
   Some(BuildSection("", [kind |-> "text", n |-> 0])),
   Some(BuildSection("Witch", [kind |-> "number", n |-> 150]))}

HelmetWith(mods) == Some([Item |-> One(Item("Helmet", "Hubris Circlet", mods))])

\* no gear, gear with defensive affixes, gear that multiplies the damage by 17
GearSectionChoices ==
  {None, SparseGearedDoc.Gear,
   HelmetWith(<<AffixText("life", 120, ""), AffixText("es", 90, ""),
                AffixText("suppress", 85, "")>>),
   HelmetWith(<<AffixText("more", 1600, "")>>)}

\* zero allocated passives, one skill with zero supports, no stats section
SparseDocs ==
  {Pob(Min, build, OneBareSkill(name), tree, gear, None) :
     build \in BuildSections, name \in {"", "Fireball", "Flame Dash"},
     tree \in {None, Some([nodes |-> <<>>])}, gear \in GearSectionChoices}

AnalysisDocs == SparseDocs \cup {StrongDoc, FullDoc(Min), BareDoc(Old)}

AnalysisInputs ==
  {Code(GoodText, ZlibFramed(TextOf(XmlOf(Some(doc))))) : doc \in AnalysisDocs}

InitAnalysis == InitWith(AnalysisInputs)

NextAnalysis == ParseArg \/ AnalyzeTool

SpecAnalysis == InitAnalysis /\ [][NextAnalysis]_vars

\* the document a build code of these studies encodes
DocumentOf(x) == Get(x.data.zlib.out.xml.root)

IsSparseDocument(doc) ==
  /\ IsSome(doc.version) /\ ~SortsBelow(Get(doc.version), <<"1", ".", "4", ".", "1", "7", "0">>)
  /\ ~IsSome(doc.Tree) \/ Len(Get(doc.Tree).nodes) = 0
  /\ IsSome(doc.Skills)
  /\ ~Get(doc.Skills).Skill.isArray /\ Len(Get(doc.Skills).Skill.elems) = 1
  /\ ~IsSome(Get(doc.Skills).Skill.elems[1].gems)
  /\ ~IsSome(doc.Stats)

\* the affixes the document's gear items declare
DeclaredAffixes(doc) ==
  IF IsSome(doc.Gear)
  THEN Concat([i \in 1..Len(Get(doc.Gear).Item.elems) |-> Get(doc.Gear).Item.elems[i].mods])
  ELSE <<>>

NamesNoDamageModifier(doc) ==
  \A a \in Range(DeclaredAffixes(doc)) : a.kind \notin {"increased", "more", "added"}

SixEstimatedZeroStats(stats) ==
  /\ Len(stats) = 6
  /\ {stats[i].name : i \in 1..6}
       = {"Life", "Energy Shield", "Fire Resistance", "Cold Resistance",
          "Lightning Resistance", "Chaos Resistance"}
  /\ \A i \in 1..6 : stats[i].value = 0 /\ stats[i].source = "estimated"

ParseOfSparseSucceeds ==
  (Responded /\ IsSparseDocument(DocumentOf(Get(lastInput))))
    => /\ Succeeded
       /\ SixEstimatedZeroStats(Get(Get(response).build).stats)

NextScenario == ParseArg \/ AnalyzeTool \/ SuggestTool

SpecScenario == InitAnalysis /\ [][NextScenario]_vars

\* the build parse produces from a document without gear and stats sections
AllDefaults(build) ==
  /\ Len(build.gear) = 15
  /\ \A i \in 1..Len(build.gear) : build.gear[i].itemName = "Empty"
  /\ build.stats = getDefaultStats

\* the list holds a critical gear suggestion to raise the element's resistance
HasCriticalResistanceSuggestion(suggestions, element) ==
  \E i \in 1..Len(suggestions) :
    /\ suggestions[i].category = "gear"
    /\ suggestions[i].priority = "critical"
    /\ suggestions[i].description.fmt = "Increase %s resistance (%d% more needed)"
    /\ suggestions[i].description.args[1] = element

\* the list holds a gear suggestion that reports the slot as empty
HasEmptySlotSuggestion(suggestions, slot) ==
  \E i \in 1..Len(suggestions) :
    /\ suggestions[i].category = "gear"
    /\ suggestions[i].description = Text("Empty gear slot: %s", <<slot>>)

\* C11: for the all-defaults build of a parse and its analysis, suggest
\* returns a non-empty list with a critical gear suggestion for each of fire,
\* cold and lightning resistance and an empty-slot gear suggestion for each
\* of the fifteen gear slots.
C11_AllDefaultsSuggestions ==
  (IsSome(suggested) /\ AllDefaults(Get(suggested).input.build))
    => LET out == Get(suggested).output IN
       /\ Len(out) > 0
       /\ \A element \in {"fire", "cold", "lightning"} :
            HasCriticalResistanceSuggestion(out, element)
       /\ \A slot \in Range(GEAR_SLOTS) : HasEmptySlotSuggestion(out, slot)

(***************************************************************************)
(* Claims about the cache behind the parse handler.                        *)
(***************************************************************************)
\* the entries of the cache whose key is the hash of the raw input x
EntriesOf(cache, x) == {i \in 1..Len(cache) : cache[i].key.sha256 = x}

\* an entry keyed by the raw input x itself is cached and within its time-to-live
OwnEntryFresh(x) ==
  \E i \in EntriesOf(buildCache, x) : now - buildCache[i].start <= CACHE_TTL_MS

FullPipeline == {"Decoder", "StructuralParser", "VersionGate", "Extractors"}

\* C12: the entry a parse call uses is determined by the raw input string
\* alone.  In every parse step of an input x: x is served from the cache
\* exactly when an unexpired entry stored under x itself is there; without
\* one the pipeline runs, even while an entry of a different input that
\* decodes to the same bytes is cached; after a success x has exactly one
\* entry, holding the build of the response, and the entries of the other
\* inputs are left as they were or evicted, never rewritten.
C12_CacheKeyedByRawInput ==
  [][\A x \in CacheInputs :
       (lastInput' = Some(x) /\ now' = now)
         => /\ OwnEntryFresh(x) => ran' = {}
            /\ ~OwnEntryFresh(x) => "Decoder" \in ran'
            /\ (~OwnEntryFresh(x) /\ Get(response').success) => ran' = FullPipeline
            /\ Get(response').success
                 => /\ Cardinality(EntriesOf(buildCache', x)) = 1
                    /\ Len(buildCache') \in EntriesOf(buildCache', x)
                    /\ buildCache'[Len(buildCache')].value = Get(Get(response').build)
            /\ \A y \in CacheInputs \ {x} :
                 /\ Cardinality(EntriesOf(buildCache', y)) <= 1
                 /\ \A i \in EntriesOf(buildCache', y) :
                      buildCache'[i] \in Range(buildCache)]_vars

\* C12 witness: the code and the same code inside white space, which decode
\* to the same bytes, hold two entries; the second was a miss that ran the
\* whole pipeline
C12_Witness ==
  /\ Len(buildCache) = 2
  /\ buildCache[1].key.sha256.text = GoodText
  /\ buildCache[2].key.sha256.text = Padded(GoodText)
  /\ buildCache[1].key.sha256.data = buildCache[2].key.sha256.data
  /\ lastInput = Some(buildCache[2].key.sha256)
  /\ ran = FullPipeline
  /\ Succeeded

(***************************************************************************)
(* The cache on its own: a caller stores builds, looks them up, asks       *)
(* whether they are cached, clears the cache and reads its statistics, in  *)
(* any order, under the clock.  recency keeps, for the build codes that    *)
(* are cached, the order of their last use: byAnyHit counts a store, a     *)
(* lookup hit and an existence-check hit as a use, byLookup only a store   *)
(* and a lookup hit; usedAt is the time of the last use by any hit.        *)
(***************************************************************************)
LruInputs ==
  {Code(GoodText, ZlibFramed(TextOf(XmlOf(Some(SparseDoc(Min, "Unknown")))))),
   Code(Padded(GoodText), ZlibFramed(TextOf(XmlOf(Some(SparseDoc(Min, "Unknown")))))),
   Code(GoodText, RawFramed(TextOf(XmlOf(Some(FullDoc(Min))))))}

MaxCacheTime == 4

\* the build the parse handler would store for the build code at time t
BuildOf(x, t) == Pipeline(x, <<>>, t).result.val

CachedInputs(cache) == {cache[i].key.sha256 : i \in 1..Len(cache)}

MoveToEnd(order, x) == SelectSeq(order, LAMBDA y : y # x) \o <<x>>

\* the order, with x used if it was, kept to the build codes still cached
Used(order, x, used, cache) ==
  SelectSeq(IF used THEN MoveToEnd(order, x) ELSE order,
            LAMBDA y : y \in CachedInputs(cache))

\* recency after a call on x: usedAt is the time of the last use of any kind
Recorded(x, byAnyHit, byLookup, cache) ==
  [byAnyHit |-> Used(recency.byAnyHit, x, byAnyHit, cache),
   byLookup |-> Used(recency.byLookup, x, byLookup, cache),
   usedAt |-> [y \in CachedInputs(cache) |->
                 IF y = x /\ byAnyHit THEN now ELSE recency.usedAt[y]]]

\* the record of a call: what it returned, and the time, the build codes
\* cached and the orders of use when it was made
Call(op, x, result) ==
  Some([op |-> op, input |-> x, result |-> result, at |-> now,
        before |-> CachedInputs(buildCache), order |-> recency])

StoreCall(x) ==
  /\ buildCache' = setCachedBuild(buildCache, x, BuildOf(x, now), now)
  /\ called' = Call("store", x, None)
  /\ recency' = Recorded(x, TRUE, TRUE, buildCache')
  /\ UNCHANGED <<now, keystonesData, response, lastInput, ran, served>>
  /\ UNCHANGED <<pureVars, sessionVars, requestVars>>

LookupCall(x) ==
  LET cached == getCachedBuild(buildCache, x, now) IN
  /\ buildCache' = cached.cache
  /\ called' = Call("lookup", x, cached.value)
  /\ recency' = Recorded(x, IsSome(cached.value), IsSome(cached.value), buildCache')
  /\ UNCHANGED <<now, keystonesData, response, lastInput, ran, served>>
  /\ UNCHANGED <<pureVars, sessionVars, requestVars>>

HasCall(x) ==
  LET has == hasCachedBuild(buildCache, x, now) IN
  /\ buildCache' = has.cache
  /\ called' = Call("has", x, <<has.value>>)
  /\ recency' = Recorded(x, has.value, FALSE, buildCache')
  /\ UNCHANGED <<now, keystonesData, response, lastInput, ran, served>>
  /\ UNCHANGED <<pureVars, sessionVars, requestVars>>

ClearCall ==
  /\ buildCache' = clearCache
  /\ called' = Call("clear", None, None)
  /\ recency' = [byAnyHit |-> <<>>, byLookup |-> <<>>, usedAt |-> <<>>]
  /\ UNCHANGED <<now, keystonesData, response, lastInput, ran, served>>
  /\ UNCHANGED <<pureVars, sessionVars, requestVars>>

StatsCall ==
  /\ called' = Call("stats", None, <<getCacheStats(buildCache)>>)
  /\ UNCHANGED <<buildCache, recency, now, keystonesData, response, lastInput, ran, served>>
  /\ UNCHANGED <<pureVars, sessionVars, requestVars>>

CacheTick ==
  /\ now < MaxCacheTime
  /\ now' = now + 1
  /\ UNCHANGED <<buildCache, keystonesData, response, lastInput, ran, served>>
  /\ UNCHANGED <<pureVars, sessionVars, cacheVars, requestVars>>

NextLru ==
  \/ \E x \in LruInputs : StoreCall(x)
  \/ \E x \in LruInputs : LookupCall(x)
  \/ \E x \in LruInputs : HasCall(x)
  \/ ClearCall
  \/ StatsCall
  \/ CacheTick

SpecLru == Init /\ [][NextLru]_vars

\* the last call stored a build code that was not cached into a full cache
StoredNewIntoFull ==
  /\ IsSome(called)
  /\ Get(called).op = "store"
  /\ Get(called).input \notin Get(called).before
  /\ Cardinality(Get(called).before) = CACHE_MAX_SIZE

\* the cache holds what it held before the last call, with the victim
\* replaced by the build code stored
EvictedOnly(victim) ==
  CachedInputs(buildCache) = (Get(called).before \ {victim}) \cup {Get(called).input}

\* C13: the cache never holds more than CACHE_MAX_SIZE entries (and the
\* statistics never report more), and a store of a new build code into a
\* full cache evicts exactly the entry whose last use is the oldest, a use
\* being a store, a lookup hit or an existence-check hit.
C13_BoundedLruByAnyHit ==
  /\ Len(buildCache) <= CACHE_MAX_SIZE
  /\ (IsSome(called) /\ Get(called).op = "stats")
       => Get(called).result[1].size <= Get(called).result[1].maxSize
  /\ StoredNewIntoFull => EvictedOnly(Get(called).order.byAnyHit[1])

\* C13 amended: the same, a use being a store or a lookup hit; a hit by the
\* existence check resets the age of the entry and leaves its turn for
\* eviction as it was.
C13_BoundedLruByLookup ==
  /\ Len(buildCache) <= CACHE_MAX_SIZE
  /\ (IsSome(called) /\ Get(called).op = "stats")
       => Get(called).result[1].size <= Get(called).result[1].maxSize
  /\ StoredNewIntoFull => EvictedOnly(Get(called).order.byLookup[1])
  /\ (IsSome(called) /\ Get(called).op = "has" /\ Get(called).result[1])
       => /\ recency.byLookup = Get(called).order.byLookup
          /\ \E i \in 1..Len(buildCache) :
               /\ buildCache[i].key.sha256 = Get(called).input
               /\ buildCache[i].start = Get(called).at

\* C13 witness: a store into a full cache evicted the entry that was stored
\* first although an existence check had hit it after the other entry's
\* last use
C13_Witness ==
  /\ StoredNewIntoFull
  /\ Get(called).order.byLookup[1] # Get(called).order.byAnyHit[1]
  /\ EvictedOnly(Get(called).order.byLookup[1])
  /\ Len(buildCache) = CACHE_MAX_SIZE

(***************************************************************************)
(* Parse calls and existence checks under the clock: the expiry study.     *)
(***************************************************************************)
ExpiryInputs == LruInputs

\* the expiry study keeps the times of use and leaves the orders of use out
TimesOnly(r) == [r EXCEPT !.byAnyHit = <<>>, !.byLookup = <<>>]

TimedCall(op, x, result) == Some([Get(Call(op, x, result)) EXCEPT !.order = TimesOnly(recency)])

\* a parse call, recorded as a use of the entry when it hits or stores
ParseCached(x) ==
  LET hit == IsSome(getCachedBuild(buildCache, x, now).value)
      used == hit \/ Pipeline(x, keystonesData, now).result.ok
  IN /\ Parse(x)
     /\ called' = TimedCall("parse", x, <<hit>>)
     /\ recency' = TimesOnly(Recorded(x, used, used, buildCache'))
     /\ UNCHANGED <<pureVars, sessionVars, requestVars>>

\* an existence check, recorded as a use of the entry when it hits
CheckCached(x) ==
  LET has == hasCachedBuild(buildCache, x, now) IN
  /\ buildCache' = has.cache
  /\ called' = TimedCall("has", x, <<has.value>>)
  /\ recency' = TimesOnly(Recorded(x, has.value, FALSE, buildCache'))
  /\ UNCHANGED <<now, keystonesData, response, lastInput, ran, served>>
  /\ UNCHANGED <<pureVars, sessionVars, requestVars>>

NextExpiry ==
  \/ \E x \in ExpiryInputs : ParseCached(x)
  \/ \E x \in ExpiryInputs : CheckCached(x)
  \/ CacheTick

SpecExpiry == Init /\ [][NextExpiry]_vars

\* C14: in every parse step of an input x whose entry the cache still holds
\* (no store of other inputs evicted it): when the entry was neither stored
\* nor hit by a lookup or an existence check for more than CACHE_TTL_MS,
\* the parse is a miss that runs the whole pipeline and returns a build
\* with a new, later timestamp; when its last store or hit is at most
\* CACHE_TTL_MS ago, the parse is served from the cache with the build of
\* the last pipeline run, and the age of the entry starts again at now.
C14_Expiry ==
  [][\A x \in ExpiryInputs :
       (ParseCached(x) /\ x \in DOMAIN recency.usedAt)
         => IF now - recency.usedAt[x] > CACHE_TTL_MS
            THEN /\ ran' = FullPipeline
                 /\ Get(response').success
                 /\ Get(Get(response').build).parsedAt = now
                 /\ Get(Get(response').build).parsedAt > Get(served[x].build).parsedAt
            ELSE /\ ran' = {}
                 /\ response' = Some(served[x])
                 /\ recency'.usedAt[x] = now
                 /\ \E i \in EntriesOf(buildCache', x) : buildCache'[i].start = now]_vars

\* C14 witness: a build parsed more than a time-to-live ago is still served
\* from the cache, because hits in between restarted its age
C14_Witness ==
  /\ IsSome(called)
  /\ Get(called).op = "parse"
  /\ Get(called).result[1]
  /\ Get(called).at = now
  /\ Succeeded
  /\ now - Get(Get(response).build).parsedAt > CACHE_TTL_MS
  /\ ran = {}

\* C14 witness of expiry: a parse of a build code whose entry had aged past
\* the time-to-live ran the pipeline again
C14_ExpiredWitness ==
  /\ IsSome(called)
  /\ Get(called).op = "parse"
  /\ ~Get(called).result[1]
  /\ Get(called).input \in Get(called).before
  /\ ran = FullPipeline

(***************************************************************************)
(* One parse call, of any argument: the error study.  Init draws a build   *)
(* code (any text with any bytes, documents of several versions) or a call *)
(* without a buildCode string.                                             *)
(***************************************************************************)
ErrorVersions ==
  {None, Some(<<>>), Some(minVersion), Old, Some(<<"1", ".", "4", ".", "9">>),
   Some(<<"2", ".", "0", ".", "0">>)}

ErrorInputs ==
  DecodeInputs
    \cup {Code(t, IF framing = "zlib" THEN ZlibFramed(TextOf(XmlOf(Some(doc))))
                   ELSE RawFramed(TextOf(XmlOf(Some(doc))))) :
            t \in {GoodText, Padded(GoodText), <<"A", "!", "A", "A">>},
            framing \in {"zlib", "raw"},
            doc \in {BareDoc(v) : v \in ErrorVersions} \cup {FullDoc(Min), FullDoc(Old)}}
    \cup {NotAString}

InitErrors == InitWith(ErrorInputs)

NextErrors == ParseArg

SpecErrors == InitErrors /\ [][NextErrors]_vars

\* the stages of the input format, each judged on the input alone
EncodingFails(x) ==
  LET t == Trim(x.text) IN
  \/ Len(t) = 0
  \/ \E i \in 1..Len(t) : t[i] \notin Base64Alphabet
  \/ DecodedLength(t) = 0

Inflates(outcome) == outcome.ok /\ outcome.out.length > 0

DecompressionFails(x) == ~Inflates(x.data.zlib) /\ ~Inflates(x.data.raw)

DecompressedText(x) == IF Inflates(x.data.zlib) THEN x.data.zlib.out ELSE x.data.raw.out

StructureFails(x) ==
  DecompressedText(x).xml.throws \/ ~IsSome(DecompressedText(x).xml.root)

VersionFails(x) ==
  LET v == Get(DecompressedText(x).xml.root).version IN
  \/ ~IsSome(v)
  \/ Get(v) = <<>>
  \/ SortsBelow(Get(v), <<"1", ".", "4", ".", "1", "7", "0">>)

\* the code of the first stage that fails on the input, if one does
FirstFailure(x) ==
  IF EncodingFails(x) THEN Some(INVALID_BASE64)
  ELSE IF DecompressionFails(x) THEN Some(DECOMPRESSION_ERROR)
  ELSE IF StructureFails(x) THEN Some(INVALID_XML)
  ELSE IF VersionFails(x) THEN Some(UNSUPPORTED_VERSION)
  ELSE None

\* success with a build and no error, or failure with an error of exactly
\* code, message and details and no build
WellShaped(r) ==
  IF r.success
  THEN IsSome(r.build) /\ ~IsSome(r.error)
  ELSE /\ ~IsSome(r.build)
       /\ IsSome(r.error)
       /\ DOMAIN Get(r.error) = {"code", "message", "details"}

\* C15: every parse call answers with a success carrying a build and no
\* error or with a failure carrying code, message and details and no build;
\* a build code fails with the code of the first stage it fails, in the
\* order encoding, decompression, structure, version, and succeeds when it
\* fails none; an exception of another kind raised inside the handler comes
\* back as a structured failure too.
C15_StructuredOutcome ==
  Responded =>
    /\ WellShaped(Get(response))
    /\ IsString(Get(lastInput))
         => LET failure == FirstFailure(Get(lastInput)) IN
            /\ IsSome(failure) => FailedWith(Get(failure))
            /\ ~IsSome(failure) => Succeeded
    /\ ~IsString(Get(lastInput))
         => /\ ~Get(response).success
            /\ Contains(ErrorOfResponse.message, HashTypeError.message)

\* C15 witness: an input that is no valid encoding and whose bytes do not
\* inflate either is reported as INVALID_BASE64, the first stage
C15_Witness ==
  /\ Responded
  /\ IsString(Get(lastInput))
  /\ EncodingFails(Get(lastInput))
  /\ DecompressionFails(Get(lastInput))
  /\ FailedWith(INVALID_BASE64)
  /\ WellShaped(Get(response))

(***************************************************************************)
(* Requests in flight.  The server's request handler is an async function: *)
(* it starts when the request is taken up, awaits the tool's handler, and  *)
(* its continuation (the log line and the return) runs in a later turn of  *)
(* the event loop, so any number of requests are between receipt and       *)
(* response at a time.  The tool's handler contains no await: its lookup,  *)
(* pipeline and store run in one turn.                                     *)
(***************************************************************************)
MaxRequests == 3

MaxRequestTime == 4

\* the arguments of the tool calls: two build codes, and a call without an
\* arguments object
RequestArgs ==
  {Some(Code(GoodText, ZlibFramed(TextOf(XmlOf(Some(SparseDoc(Min, "Unknown"))))))),
   Some(Code(GoodText, RawFramed(TextOf(XmlOf(Some(FullDoc(Min))))))),
   None}

\* the parse handler as a function of the cache, the keystone data, the
\* build code and the time: [response, cache, keystones]
handler(cache, data, buildCode, t) ==
  IF ~IsString(buildCode)
  THEN [response |-> wrapError(HashTypeError), cache |-> cache, keystones |-> data]
  ELSE LET cached == getCachedBuild(cache, buildCode, t) IN
       IF IsSome(cached.value)
       THEN [response |-> HitResponse(Get(cached.value)), cache |-> cached.cache,
             keystones |-> data]
       ELSE LET p == Pipeline(buildCode, data, t) IN
            IF p.result.ok
            THEN [response |-> SuccessResponse(p.result.val),
                  cache |-> setCachedBuild(cached.cache, buildCode,
                                           StoredBuild(p.result.val), t),
                  keystones |-> p.keystones]
            ELSE [response |-> wrapError(p.result.err), cache |-> cached.cache,
                  keystones |-> p.keystones]

INVALID_REQUEST == "INVALID_REQUEST"

\* the server's answer to a call without arguments
NoArguments ==
  [success |-> FALSE, build |-> None,
   error |-> Some([code |-> INVALID_REQUEST,
                   message |-> <<"No arguments provided to tool call">>])]

\* the server's handler of a parse_pob_code call
callTool(cache, data, args, t) ==
  IF ~IsSome(args)
  THEN [response |-> NoArguments, cache |-> cache, keystones |-> data]
  ELSE handler(cache, data, Get(args), t)

\* a handler that works on the cache as it was when its request arrived
CacheAtReceipt(request) == request.seen

\* the cache a request's handler works on: the module's one buildCache, as
\* it is in the turn the handler runs
CacheAtHandling(request) == buildCache

InFlight == {i \in 1..Len(requests) : requests[i].pc # "responded"}

Pending == {i \in 1..Len(requests) : requests[i].pc = "received"}

Receive(args) ==
  /\ Len(requests) < MaxRequests
  /\ requests' = Append(requests, [args |-> args, pc |-> "received",
                                   seen |-> buildCache, response |-> None])
  /\ UNCHANGED <<buildCache, now, keystonesData, handledLog>>

Handle(i) ==
  LET out == callTool(CacheAtHandling(requests[i]), keystonesData, requests[i].args, now) IN
  /\ requests[i].pc = "received"
  /\ buildCache' = out.cache
  /\ keystonesData' = out.keystones
  /\ requests' = [requests EXCEPT ![i].pc = "handled", ![i].response = Some(out.response)]
  /\ handledLog' = Append(handledLog, [id |-> i, args |-> requests[i].args, at |-> now])
  /\ UNCHANGED now

Respond(i) ==
  /\ requests[i].pc = "handled"
  /\ requests' = [requests EXCEPT ![i].pc = "responded"]
  /\ UNCHANGED <<buildCache, now, keystonesData, handledLog>>

ReceiveRequest == /\ \E args \in RequestArgs : Receive(args)
                  /\ UNCHANGED <<response, lastInput, ran, served>>
                  /\ UNCHANGED <<pureVars, sessionVars, cacheVars>>

HandleRequest == /\ \E i \in Pending : Handle(i)
                 /\ UNCHANGED <<response, lastInput, ran, served>>
                 /\ UNCHANGED <<pureVars, sessionVars, cacheVars>>

SendResponse == /\ \E i \in 1..Len(requests) : Respond(i)
                /\ UNCHANGED <<response, lastInput, ran, served>>
                /\ UNCHANGED <<pureVars, sessionVars, cacheVars>>

RequestTick == /\ now < MaxRequestTime
               /\ now' = now + 1
               /\ UNCHANGED <<buildCache, keystonesData, response, lastInput, ran, served>>
               /\ UNCHANGED <<pureVars, sessionVars, cacheVars, requestVars>>

NextRequests == ReceiveRequest \/ HandleRequest \/ SendResponse \/ RequestTick

SpecRequests == Init /\ [][NextRequests]_vars

\* the same calls made one after another, each finished before the next
\* starts, in the order and at the times of the log:
\* [cache, keystones, responses]
RECURSIVE OneAfterAnother(_)
OneAfterAnother(log) ==
  IF Len(log) = 0
  THEN [cache |-> <<>>, keystones |-> <<>>, responses |-> <<>>]
  ELSE LET before == OneAfterAnother(SubSeq(log, 1, Len(log) - 1))
           call == log[Len(log)]
           out == callTool(before.cache, before.keystones, call.args, call.at)
       IN [cache |-> out.cache, keystones |-> out.keystones,
           responses |-> (call.id :> out.response) @@ before.responses]

OneEntryPerInput ==
  \A i, j \in 1..Len(buildCache) : buildCache[i].key = buildCache[j].key => i = j

\* the step replaced the build cached under an input by another build
Replaced(i, j) ==
  /\ buildCache[i].key = buildCache'[j].key
  /\ buildCache[i].value # buildCache'[j].value

\* C16: however the receipts, handler runs and responses of the requests in
\* flight interleave, every response is the one the same calls give when
\* made one after another in the order their handlers ran, the cache is the
\* cache of that sequential run and holds at most one entry per raw input,
\* and no step changes the build cached under an input, except the parse
\* of that input that found its entry expired and stored a new one.
C16_NoCorruption ==
  /\ [](LET seq == OneAfterAnother(handledLog) IN
        /\ buildCache = seq.cache
        /\ \A i \in 1..Len(requests) :
             IsSome(requests[i].response)
               => /\ i \in DOMAIN seq.responses
                  /\ Get(requests[i].response) = seq.responses[i]
        /\ OneEntryPerInput)
  /\ [][\A i \in 1..Len(buildCache) : \A j \in 1..Len(buildCache') :
          Replaced(i, j)
            => /\ IsStale(buildCache[i], now)
               /\ Len(handledLog') = Len(handledLog) + 1
               /\ handledLog'[Len(handledLog')].args = Some(buildCache[i].key.sha256)
               /\ buildCache'[j].start = now]_vars

\* three requests in flight at once: the third handled was served the build
\* the first handled had stored, and a request for another input was handled
\* in between
C16_Witness ==
  /\ Cardinality(InFlight) = 3
  /\ Len(handledLog) = 3
  /\ LET call == handledLog[3] IN
    /\ handledLog[1].args = call.args
    /\ handledLog[2].args # call.args
    /\ IsSome(handledLog[2].args)
    /\ Get(requests[call.id].response).success
    /\ Get(Get(requests[call.id].response).build).parsedAt < call.at

(***************************************************************************)
(* The rescore step on its own: a candidate one of the suggesters issued   *)
(* for a build and an analysis, rescored against that analysis.            *)
(***************************************************************************)
DefensiveRatings == {"glass_cannon", "moderate", "tanky", "uber_viable"}

OffensiveRatings == {"low", "moderate", "high", "extreme"}

ScoreAnalyses ==
  {[strengths |-> <<>>, weaknesses |-> weaknesses, playstyleType |-> "unknown",
    defensiveRating |-> defensive, offensiveRating |-> offensive, analyzedAt |-> 1] :
     weaknesses \in WeaknessChoices, defensive \in DefensiveRatings,
     offensive \in OffensiveRatings}

ScoreInputs ==
  UNION {{[suggestion |-> s, analysis |-> analysis] :
            s \in Range(AllSuggestions(build, analysis))} :
           build \in SuggestBuilds, analysis \in ScoreAnalyses}

InitScore == InitPure(ScoreInputs)

ApplyScore ==
  /\ ret = None
  /\ ret' = Some(scoreSuggestionPriority(Get(arg).suggestion, Get(arg).analysis))
  /\ UNCHANGED <<arg, parseVars, sessionVars, cacheVars, requestVars>>

NextScore == ApplyScore

SpecScore == InitScore /\ [][NextScore]_vars

\* the critical-weakness phrases the lower-cased description of a candidate
\* contains: of the descriptions the suggesters write, only that of the
\* empty-slot suggestion contains one
PhrasesOfDescription(description) ==
  IF description.fmt = "Empty gear slot: %s" THEN {"empty"} ELSE {}

NamesCriticalWeakness(suggestion) ==
  PhrasesOfDescription(suggestion.description) \cap criticalWeaknesses # {}

\* C17: the rescored candidate is critical when its own description contains
\* one of the critical-weakness phrases, and a candidate whose description
\* contains none of them keeps a priority that was not critical.
C17_UpgradeByOwnDescription ==
  IsSome(ret) =>
    LET before == Get(arg).suggestion
        after == Get(ret)
    IN /\ NamesCriticalWeakness(before) => after.priority = "critical"
       /\ (~NamesCriticalWeakness(before) /\ before.priority # "critical")
            => after.priority # "critical"

\* the test of the upgrade rule: some weakness of the analysis contains one
\* of the critical-weakness phrases
addressesCriticalWeakness(analysis) == HasWeakness(analysis, criticalWeaknesses)

\* the downgrade rule applies to the candidate under the analysis
Downgradable(suggestion, analysis) ==
  \/ /\ suggestion.category \in {"passives", "gear"}
     /\ analysis.defensiveRating \in {"tanky", "uber_viable"}
  \/ /\ suggestion.category = "gems"
     /\ analysis.offensiveRating = "extreme"

\* C18: a candidate that is critical when issued, or that the upgrade rule
\* of the rescoring sets to critical, comes out critical; any other
\* candidate comes out optional when it is important and either its
\* category is passives or gear and the defensive rating is tanky or
\* uber_viable, or its category is gems and the offensive rating is extreme,
\* and keeps its priority in every other case; nothing but the priority
\* changes.
C18_DowngradeRule ==
  IsSome(ret) =>
    LET before == Get(arg).suggestion
        analysis == Get(arg).analysis
        after == Get(ret)
    IN /\ after = [before EXCEPT !.priority = after.priority]
       /\ after.priority =
            IF before.priority = "critical" \/ addressesCriticalWeakness(analysis)
            THEN "critical"
            ELSE IF before.priority = "important" /\ Downgradable(before, analysis)
            THEN "optional"
            ELSE before.priority

\* an important gem candidate downgraded under an extreme offensive rating
\* and a glass-cannon defensive rating
C18_Witness ==
  /\ IsSome(ret)
  /\ Get(arg).suggestion.priority = "important"
  /\ Get(arg).suggestion.category = "gems"
  /\ Get(arg).analysis.offensiveRating = "extreme"
  /\ Get(arg).analysis.defensiveRating = "glass_cannon"
  /\ ~addressesCriticalWeakness(Get(arg).analysis)
  /\ Get(ret).priority = "optional"

\* an important gear candidate kept critical under a tanky rating, because
\* the analysis lists a critical weakness
C18_KeptCriticalWitness ==
  /\ IsSome(ret)
  /\ Get(arg).suggestion.priority = "important"
  /\ Get(arg).suggestion.category = "gear"
  /\ Get(arg).analysis.defensiveRating = "tanky"
  /\ addressesCriticalWeakness(Get(arg).analysis)
  /\ Get(ret).priority = "critical"

\* the merged candidates of the four suggesters, rescored
Rescored(build, analysis) ==
  LET allSuggestions == AllSuggestions(build, analysis) IN
  [i \in 1..Len(allSuggestions) |-> scoreSuggestionPriority(allSuggestions[i], analysis)]

SamePair(a, b) == a.category = b.category /\ a.description = b.description

\* the list's first suggestion with the candidate's category and description
FirstOccurrence(suggestions, s) ==
  suggestions[CHOOSE i \in 1..Len(suggestions) :
                /\ SamePair(suggestions[i], s)
                /\ \A k \in 1..(i - 1) : ~SamePair(suggestions[k], s)]

\* the candidates come in the order gems, passives, gear, utility
MergedInOrder(suggestions) ==
  \A i, j \in 1..Len(suggestions) :
    i < j => categoryIndex(suggestions[i].category) \in
               CASE suggestions[j].category = "gems" -> {2}
                 [] suggestions[j].category = "passives" -> {2, 1}
                 [] suggestions[j].category = "gear" -> {2, 1, 0}
                 [] OTHER -> {2, 1, 0, 3}

\* C19: the list suggest returns holds no two suggestions with the same
\* category and description, and each suggestion of it is the first
\* candidate of its category and description in the merged, rescored list,
\* which holds the gem candidates, then the passive, the gear and the
\* utility candidates.
C19_FirstOccurrenceWins ==
  IsSome(ret) =>
    LET out == Get(ret)
        merged == Rescored(Get(arg).build, Get(arg).analysis)
    IN /\ MergedInOrder(merged)
       /\ \A i, j \in 1..Len(out) : SamePair(out[i], out[j]) => i = j
       /\ \A j \in 1..Len(out) :
            /\ \E i \in 1..Len(merged) : SamePair(merged[i], out[j])
            /\ out[j] = FirstOccurrence(merged, out[j])

\* two candidates of one category and description that differ otherwise,
\* the first of them returned
C19_Witness ==
  /\ IsSome(ret)
  /\ LET out == Get(ret)
         merged == Rescored(Get(arg).build, Get(arg).analysis)
     IN \E i, k \in 1..Len(merged) :
          /\ i < k
          /\ SamePair(merged[i], merged[k])
          /\ merged[i] # merged[k]
          /\ \E j \in 1..Len(out) : out[j] = merged[i]

\* two candidates of one category and description
C19_DuplicateWitness ==
  /\ IsSome(ret)
  /\ LET merged == Rescored(Get(arg).build, Get(arg).analysis)
     IN \E i, k \in 1..Len(merged) : i < k /\ SamePair(merged[i], merged[k])

\* a comes before b in the order of priority, then category
Precedes(a, b) ==
  \/ priorityWeight(a.priority) > priorityWeight(b.priority)
  \/ /\ a.priority = b.priority
     /\ categoryIndex(a.category) <= categoryIndex(b.category)

PositionIn(suggestions, s) == CHOOSE i \in 1..Len(suggestions) : suggestions[i] = s

\* C20: in the list suggest returns every critical suggestion precedes
\* every important one and every important one every optional one, among
\* suggestions of equal priority the categories come in the order gear,
\* passives, gems, utility, and the returned suggestions stand in the order
\* the sort step gave them.
C20_Ordering ==
  IsSome(ret) =>
    LET out == Get(ret)
        sorted == sortSuggestions(Deduplicated(Get(arg).build, Get(arg).analysis))
    IN /\ \A i, j \in 1..Len(out) : i < j => Precedes(out[i], out[j])
       /\ \A i \in 1..Len(out) : \E k \in 1..Len(sorted) : sorted[k] = out[i]
       /\ \A i, j \in 1..Len(out) :
            i < j => PositionIn(sorted, out[i]) < PositionIn(sorted, out[j])
       /\ \A i, j \in 1..Len(sorted) : i < j => Precedes(sorted[i], sorted[j])

\* a returned list with all three priorities, two categories within one
\* priority, and a suggestion cut by the cap
C20_Witness ==
  /\ IsSome(ret)
  /\ LET out == Get(ret)
         sorted == sortSuggestions(Deduplicated(Get(arg).build, Get(arg).analysis))
     IN /\ {out[i].priority : i \in 1..Len(out)} = {"critical", "important", "optional"}
        /\ \E i, j \in 1..Len(out) :
             /\ out[i].priority = out[j].priority
             /\ out[i].category = "gear"
             /\ out[j].category = "gems"
        /\ Len(out) < Len(sorted)

(***************************************************************************)
(* The offensive analysis on its own: builds with and without an explicit  *)
(* DPS stat, with values on both sides of each threshold.                  *)
(***************************************************************************)
DpsValues == {0, 99999, 100000, 499999, 500000, 999999, 1000000}

OffenseStatChoices ==
  {<<>>, <<Stat("Life", 4000)>>}
    \cup {<<Stat("DPS", v)>> : v \in DpsValues}
    \cup {<<Stat("Life", 4000), Stat("DPS", v)>> : v \in DpsValues}
    \cup {<<Stat("DPS", v), Stat("DPS", w)>> : v \in DpsValues, w \in {0, 1000000}}

OffenseGearChoices ==
  {<<>>,
   <<GearSlot("Helmet", "Hubris Circlet", "",
              <<AffixText("more", 100, ""), AffixText("increased", 50, "")>>)>>}

OffenseBuilds ==
  {[character |-> [class |-> "Witch", level |-> Num(level)],
    skills |-> skills, gear |-> gear, stats |-> stats] :
     level \in {1, 100},
     skills \in {<<>>, <<SkillSetup(1, "Spark", <<SupportGem("Added Lightning Damage")>>,
                                    2, TRUE)>>},
     gear \in OffenseGearChoices, stats \in OffenseStatChoices}

InitOffense == InitPure(OffenseBuilds)

ApplyAnalyzeOffense ==
  /\ ret = None
  /\ ret' = Some(analyzeOffense(Get(arg)))
  /\ UNCHANGED <<arg, parseVars, sessionVars, cacheVars, requestVars>>

NextOffense == ApplyAnalyzeOffense

SpecOffense == InitOffense /\ [][NextOffense]_vars

\* the positions of the stats that are explicit DPS stats
DpsStats(build) == {i \in 1..Len(build.stats) : IsDpsStat(build.stats[i].name)}

FirstOf(positions) == CHOOSE i \in positions : \A j \in positions : i <= j

RatingByThresholds(dps) ==
  CASE dps < 100000 -> "low"
    [] 100000 <= dps /\ dps < 500000 -> "moderate"
    [] 500000 <= dps /\ dps < 1000000 -> "high"
    [] dps >= 1000000 -> "extreme"

\* C21: the rating is low, moderate, high or extreme by the thresholds
\* 100000, 500000 and 1000000 on the DPS, and when the stat list holds a DPS
\* stat the DPS is the value of the first such stat, whatever the gear, the
\* supports and the level would give as an estimate.
C21_OffensiveClassification ==
  IsSome(ret) =>
    LET build == Get(arg) IN
    /\ Get(ret).rating = RatingByThresholds(Get(ret).estimatedDPS)
    /\ DpsStats(build) # {}
         => Get(ret).estimatedDPS = build.stats[FirstOf(DpsStats(build))].value

\* a build whose gear and supports alone estimate another rating than its
\* explicit DPS stat of 500000, rated high
C21_Witness ==
  /\ IsSome(ret)
  /\ DpsStats(Get(arg)) # {}
  /\ Get(ret).estimatedDPS = 500000
  /\ Get(ret).rating = "high"
  /\ Get(arg).gear # <<>>
  /\ RatingByThresholds(RoundDiv(DpsNumerator(Get(arg)), DpsDenominator(Get(arg)))) # "high"

(***************************************************************************)
(* The playstyle classification on its own: over score triples, and over   *)
(* builds whose scores detectPlaystyle counts.                             *)
(***************************************************************************)
MaxDoubledScore == 24

\* clear and boss scores in half points (doubled), and movement speeds on
\* both sides of 20
ScoreTriples ==
  {[clear2 |-> c, boss2 |-> b, movementSpeed |-> m] :
     c \in 0..MaxDoubledScore, b \in 0..MaxDoubledScore, m \in {0, 20, 21}}

IsTriple(x) == "clear2" \in DOMAIN x

InitPlaystyle == InitPure(ScoreTriples \cup SuggestBuilds)

ApplyClassifyPlaystyle ==
  /\ ret = None
  /\ IsTriple(Get(arg))
  /\ ret' = Some([type |-> classifyPlaystyle(Get(arg).clear2, Get(arg).boss2,
                                             Get(arg).movementSpeed)])
  /\ UNCHANGED <<arg, parseVars, sessionVars, cacheVars, requestVars>>

ApplyDetectPlaystyle ==
  /\ ret = None
  /\ ~IsTriple(Get(arg))
  /\ ret' = Some(detectPlaystyle(Get(arg)))
  /\ UNCHANGED <<arg, parseVars, sessionVars, cacheVars, requestVars>>

NextPlaystyle == ApplyClassifyPlaystyle \/ ApplyDetectPlaystyle

SpecPlaystyle == InitPlaystyle /\ [][NextPlaystyle]_vars

\* the scores and the movement speed the classification is made from
ScoresOf(x) ==
  IF IsTriple(x) THEN x
  ELSE [clear2 |-> countClearSpeedIndicators(x), boss2 |-> countBossIndicators(x),
        movementSpeed |-> getMovementSpeed(x)]

\* the rules in order, a score s being s2 / 2:
\* c + b < 1; c > 1.5 b and speed > 20; b > 1.5 c; |c - b| < 3; c > b
RulesMatched(t) ==
  <<t.clear2 + t.boss2 < 2,
    2 * t.clear2 > 3 * t.boss2 /\ t.movementSpeed > 20,
    2 * t.boss2 > 3 * t.clear2,
    t.clear2 - t.boss2 < 6 /\ t.boss2 - t.clear2 < 6,
    t.clear2 > t.boss2,
    TRUE>>

RuleResults == <<"unknown", "clear", "boss", "hybrid", "clear", "boss">>

FirstMatch(t) == CHOOSE i \in 1..6 : RulesMatched(t)[i] /\ \A j \in 1..(i - 1) : ~RulesMatched(t)[j]

\* C22: the playstyle is the result of the first rule that matches the
\* clear score, the boss score and the movement speed, and is one of
\* clear, boss, hybrid and unknown.
C22_PlaystyleFirstMatch ==
  IsSome(ret) =>
    /\ Get(ret).type = RuleResults[FirstMatch(ScoresOf(Get(arg)))]
    /\ Get(ret).type \in {"clear", "boss", "hybrid", "unknown"}

\* a clear-dominant score without the movement speed, three points apart:
\* classified clear by the last rules only
C22_Witness ==
  /\ IsSome(ret)
  /\ IsTriple(Get(arg))
  /\ FirstMatch(Get(arg)) = 5
  /\ 2 * Get(arg).clear2 > 3 * Get(arg).boss2
  /\ Get(arg).movementSpeed = 20
  /\ Get(ret).type = "clear"

\* a build classified from its own scores as something else than unknown
C22_BuildWitness ==
  /\ IsSome(ret)
  /\ ~IsTriple(Get(arg))
  /\ Get(ret).type # "unknown"

(***************************************************************************)
(* analyze_build on builds a client sends: a build without any weakness,   *)
(* and the builds that differ from it in one way or several.               *)
(***************************************************************************)
WeaknessTestSkills(curse, movement, guard) ==
  <<SkillSetup(1, "Arc", SixSupports, 7, TRUE)>>
    \o When(curse, <<SkillSetup(2, "Frostbite", <<>>, 1, FALSE)>>)
    \o When(movement, <<SkillSetup(3, "Flame Dash", <<>>, 1, FALSE)>>)
    \o When(guard, <<SkillSetup(4, "Steelskin", <<>>, 1, FALSE)>>)

WeaknessTestBuilds ==
  {[buildId |-> "", version |-> minVersion, gameVersion |-> "3.25.0",
    character |-> [class |-> "Witch", level |-> Num(95)],
    skills |-> WeaknessTestSkills(curse, movement, guard),
    passives |-> [totalPoints |-> 95, nodes |-> <<>>, keystones |-> <<>>,
                  notables |-> <<>>],
    gear |-> <<>>,
    stats |-> <<Stat("Life", life), Stat("Fire Resistance", fire),
                Stat("Cold Resistance", 75), Stat("Lightning Resistance", 75),
                Stat("Chaos Resistance", 60), Stat("Armor", armor)>>
              \o When(regen, <<Stat("Life Regeneration", 200)>>),
    parsedAt |-> 1] :
     curse \in BOOLEAN, movement \in BOOLEAN, guard \in BOOLEAN, regen \in BOOLEAN,
     life \in {2500, 5200}, fire \in {40, 75}, armor \in {0, 10000}}

InitWeakness == InitPure(WeaknessTestBuilds)

ApplyAnalyze ==
  /\ ret = None
  /\ ret' = Some(Analyze(Get(arg), now))
  /\ UNCHANGED <<arg, parseVars, sessionVars, cacheVars, requestVars>>

NextWeakness == ApplyAnalyze

SpecWeakness == InitWeakness /\ [][NextWeakness]_vars

\* none of the three weakness detectors reports a finding on the build as
\* the handler analyses it
NoFinding(build) ==
  LET found == detectWeaknesses(estimateMissingStats(build)).categories IN
  Len(found.defenses) + Len(found.offenses) + Len(found.utilities) = 0

\* C23: analyze returns a BuildAnalysis for every build, and when no
\* weakness detector reports a finding its weaknesses list holds the
\* generic "no weaknesses detected" entry.
C23_FallbackWeakness ==
  IsSome(ret) =>
    /\ Get(ret).playstyleType \in {"clear", "boss", "hybrid", "unknown"}
    /\ NoFinding(Get(arg)) => NoWeaknessesMessage \in Range(Get(ret).weaknesses)

\* a build without a finding has been analysed
C23_NoFindingReached == IsSome(ret) /\ NoFinding(Get(arg))

\* the sub-entries of a skill entry, in document order
GemEntries(skill) == IF IsSome(skill.gems) THEN Get(skill.gems).Gem.elems ELSE <<>>

\* the skill entries of a section, in document order
EntriesOfSection(skillsSection) ==
  IF IsSome(skillsSection) THEN Get(skillsSection).Skill.elems ELSE <<>>

\* C24: parseSkills returns one SkillSetup for each skill entry of the
\* section, one entry included, in document order with the ids skill-1 to
\* skill-n, the supports of each being its sub-entries typed "Support" in
\* order; an absent section gives the empty list.
C24_SkillExtraction ==
  IsSome(ret) =>
    LET entries == EntriesOfSection(Get(arg))
        skills == Get(ret)
    IN /\ Len(skills) = Len(entries)
       /\ \A i \in 1..Len(skills) :
            LET typed == SelectSeq(GemEntries(entries[i]), LAMBDA g : g.type = "Support") IN
            /\ skills[i].id = [prefix |-> "skill-", index |-> i]
            /\ skills[i].skillName = entries[i].name
            /\ Len(skills[i].supports) = Len(typed)
            /\ \A j \in 1..Len(typed) :
                 skills[i].supports[j].name
                   = IF typed[j].name # "" THEN typed[j].name ELSE "Unknown"

(***************************************************************************)
(* The dominant damage type on its own, over builds of up to two skills.   *)
(***************************************************************************)
DamageSkillNames == {"Fireball", "Frostbite", "Arc", "Steelskin"}

DamageSupportChoices ==
  {<<>>, <<SupportGem("Added Fire Damage")>>, <<SupportGem("Elemental Focus")>>}

DamageSkills ==
  {SkillSetup(1, name, supports, Len(supports) + 1, TRUE) :
     name \in DamageSkillNames, supports \in DamageSupportChoices}

DamageBuilds == {[skills |-> skills] : skills \in SeqsUpTo(DamageSkills, 2)}

InitDamageType == InitPure(DamageBuilds)

ApplyIdentifyDamageType ==
  /\ ret = None
  /\ ret' = Some(identifyDamageType(Get(arg)))
  /\ UNCHANGED <<arg, parseVars, sessionVars, cacheVars, requestVars>>

NextDamageType == ApplyIdentifyDamageType

SpecDamageType == InitDamageType /\ [][NextDamageType]_vars

\* twice the count of a type: 1 for each of its keywords in a skill's name,
\* 0.5 for each in a support's name
TypeCount2(build, t) ==
  LET visited == DamageNamesVisited(build) IN
  Sum([i \in 1..Len(visited) |->
         visited[i].weight
           * Cardinality({k \in 1..Len(DAMAGE_TYPES[t].keywords) :
                            Includes(visited[i].name, DAMAGE_TYPES[t].keywords[k])})])

MaxCount2(build) ==
  LET counts == {TypeCount2(build, t) : t \in 1..Len(DAMAGE_TYPES)} IN
  CHOOSE m \in counts : \A c \in counts : c <= m

\* C25: the reported type is Elemental when the fire, cold and lightning
\* counts together are at least 2 and equal the highest count; otherwise it
\* is a type with the highest count, and "unknown" when no keyword matches.
C25_DominantDamageType ==
  IsSome(ret) =>
    LET build == Get(arg)
        elemental2 == TypeCount2(build, 1) + TypeCount2(build, 2) + TypeCount2(build, 3)
    IN IF elemental2 >= 4 /\ elemental2 = MaxCount2(build) THEN Get(ret) = "Elemental"
       ELSE IF MaxCount2(build) = 0 THEN Get(ret) = "unknown"
       ELSE \E t \in 1..Len(DAMAGE_TYPES) :
              /\ TypeCount2(build, t) = MaxCount2(build)
              /\ Get(ret) = Capitalized(DAMAGE_TYPES[t].type)

(***************************************************************************)
(* decompressWithFallback step by step: the try block, and the catch block *)
(* entered when the try block threw.  ret holds the framings attempted so  *)
(* far and the outcome once the function has returned or thrown.           *)
(***************************************************************************)
FallbackTexts ==
  {TextOf(XmlOf(Some(SparseDoc(Min, "Unknown")))), TextOf(XmlOf(Some(FullDoc(Min)))),
   TextOf(XmlOf(Some(BareDoc(Old)))), TextOf(XmlError), TextOf(XmlOf(None))}

\* what one framing makes of the bytes
FramingOutcomes(failure) ==
  {InflateError(failure), InflateError(<<"unexpected end of file">>), Inflated(EmptyText)}
    \cup {Inflated(text) : text \in FallbackTexts}

\* non-empty byte sequences, by what each framing makes of them
FallbackBuffers ==
  {[length |-> 3, data |-> [zlib |-> z, raw |-> r]] :
     z \in FramingOutcomes(ZlibMessage), r \in FramingOutcomes(RawMessage)}

InitFallback == InitPure(FallbackBuffers)

\* the try block: decompressZlib returns, or throws into the catch block
TryStandardFraming ==
  /\ ret = None
  /\ LET z == decompressZlib(Get(arg)) IN
     ret' = Some([attempts |-> <<"zlib">>, caught |-> IF z.ok THEN None ELSE Some(z.err),
                  outcome |-> IF z.ok THEN Some(z) ELSE None])
  /\ UNCHANGED <<arg, parseVars, sessionVars, cacheVars, requestVars>>

\* the catch block: inflateRawSync, its output returned unless it is empty
TryRawFraming ==
  /\ IsSome(ret)
  /\ IsSome(Get(ret).caught)
  /\ ~IsSome(Get(ret).outcome)
  /\ LET r == inflateRawSync(Get(arg))
         zlibError == Get(Get(ret).caught)
     IN ret' = Some([attempts |-> Append(Get(ret).attempts, "raw"),
                     caught |-> Get(ret).caught,
                     outcome |-> Some(IF r.ok /\ r.out.length # 0 THEN Return(r.out)
                                      ELSE Throw(BothFailedError(zlibError)))])
  /\ UNCHANGED <<arg, parseVars, sessionVars, cacheVars, requestVars>>

NextFallback == TryStandardFraming \/ TryRawFraming

SpecFallback == InitFallback /\ [][NextFallback]_vars

\* the framing gave a payload that is not empty
Yields(outcome) == outcome.ok /\ outcome.out.length # 0

\* C26: on a non-empty byte sequence the standard framing is attempted
\* first and the raw framing only after the standard attempt gave no
\* non-empty payload; the decompression returns a text, that of the standard
\* framing if it gave one and else that of the raw framing, exactly when one
\* of the two gave a non-empty payload, and fails with DECOMPRESSION_ERROR
\* otherwise, zero bytes included; the result is the one parsePoBXML gets
\* from decompressWithFallback.
C26_FallbackOrder ==
  IsSome(ret) =>
    LET data == Get(arg).data
        attempts == Get(ret).attempts
    IN /\ attempts \in {<<"zlib">>, <<"zlib", "raw">>}
       /\ attempts = <<"zlib", "raw">> => ~Yields(data.zlib)
       /\ IsSome(Get(ret).outcome) =>
            LET outcome == Get(Get(ret).outcome) IN
            /\ outcome = decompressWithFallback(Get(arg))
            /\ outcome.ok <=> (Yields(data.zlib) \/ Yields(data.raw))
            /\ outcome.ok =>
                 outcome.val = IF Yields(data.zlib) THEN data.zlib.out ELSE data.raw.out
            /\ ~outcome.ok => outcome.err.code = DECOMPRESSION_ERROR
       /\ (~IsSome(Get(ret).outcome)) => ~Yields(data.zlib)

\* the standard framing inflated to zero bytes, the raw framing was tried
\* after it and gave the text that goes to the structural parser
C26_Witness ==
  /\ IsSome(ret)
  /\ Get(arg).data.zlib.ok
  /\ Get(arg).data.zlib.out.length = 0
  /\ Get(ret).attempts = <<"zlib", "raw">>
  /\ IsSome(Get(ret).outcome)
  /\ Get(Get(ret).outcome).ok
  /\ Get(Get(ret).outcome).val = Get(arg).data.raw.out

\* both framings inflated to zero bytes: DECOMPRESSION_ERROR
C26_ZeroBytesWitness ==
  /\ IsSome(ret)
  /\ Yields(Get(arg).data.zlib) = FALSE /\ Get(arg).data.zlib.ok
  /\ Get(arg).data.raw.ok /\ Get(arg).data.raw.out.length = 0
  /\ IsSome(Get(ret).outcome)
  /\ ~Get(Get(ret).outcome).ok

(***************************************************************************)
(* The passive extractor against its data source.  arg is the source the   *)
(* process runs with; ret counts the calls of parsePassives and the reads  *)
(* of the source and holds the last PassiveTree returned.                  *)
(***************************************************************************)
MaxPassiveCalls == 4

KeystoneSources ==
  {[readable |-> TRUE, entries |-> KeystonesFile],
   [readable |-> TRUE,
    entries |-> KeystonesFile \o <<[id |-> "57279", name |-> "Iron Reflexes"]>>],
   [readable |-> TRUE, entries |-> <<>>],
   [readable |-> FALSE, entries |-> <<>>]}

TreeSections ==
  {None} \cup {Some([nodes |-> nodes]) :
                 nodes \in {<<>>, <<"100">>, <<"16226">>, <<"100", "16226">>, <<"57279">>,
                            <<"16226", "57279">>, <<"57279", "100">>}}

InitKeystones == InitPure(KeystoneSources)

CallsSoFar == IF IsSome(ret) THEN Get(ret).calls ELSE 0

ReadsSoFar == IF IsSome(ret) THEN Get(ret).reads ELSE 0

ParsePassivesCall(treeSection) ==
  LET load == NeedsLoad(keystonesData)
      table == IF load THEN loadKeystonesData(Get(arg)) ELSE keystonesData
  IN /\ CallsSoFar < MaxPassiveCalls
     /\ keystonesData' = table
     /\ ret' = Some([calls |-> CallsSoFar + 1,
                     reads |-> ReadsSoFar + (IF load THEN 1 ELSE 0),
                     passives |-> PassivesWith(treeSection, table)])

ParsePassives ==
  /\ \E treeSection \in TreeSections : ParsePassivesCall(treeSection)
  /\ UNCHANGED <<buildCache, now, response, lastInput, ran, served>>
  /\ UNCHANGED <<arg, sessionVars, cacheVars, requestVars>>

NextKeystones == ParsePassives

SpecKeystones == InitKeystones /\ [][NextKeystones]_vars

\* C27: the first parsePassives call reads the data source and no later
\* call reads it again, whatever the first read gave.
C27_LoadedOnce == IsSome(ret) => Get(ret).reads = 1

\* a second call after a first load that gave entries, with one read in all
C27_LoadedOnceReached ==
  /\ IsSome(ret)
  /\ Get(ret).calls = 2
  /\ Get(ret).reads = 1

(***************************************************************************)
(* The character extractor on build sections alone.                        *)
(***************************************************************************)
LevelAttributes ==
  {NoLevel, [kind |-> "text", n |-> 0], [kind |-> "digitsThenText", n |-> 12]}
    \cup {[kind |-> "number", n |-> n] : n \in {-5, 0, 1, 42, 100, 101, 150}}

MainSockets ==
  {None} \cup {Some([class |-> "Shadow", ascendancyName |-> ascendancy, level |-> level]) :
                 ascendancy \in {"", "Trickster"},
                 level \in {NoLevel, [kind |-> "number", n |-> 90], [kind |-> "text", n |-> 0]}}

CharacterSections ==
  {None} \cup {Some([class |-> class, ascendancy |-> ascendancy, level |-> level,
                     league |-> league, MainSocket |-> socket]) :
                 class \in {"", "Ranger"}, ascendancy \in {"", "Deadeye"},
                 level \in LevelAttributes, league \in {"", "Standard"},
                 socket \in MainSockets}

InitCharacter == InitPure(CharacterSections)

ApplyParseCharacter ==
  /\ ret' = Some(parseCharacter(Get(arg)))
  /\ UNCHANGED <<arg, parseVars, sessionVars, cacheVars, requestVars>>

NextCharacter == ApplyParseCharacter

SpecCharacter == InitCharacter /\ [][NextCharacter]_vars

\* C28: whatever the build section, the Character returned has an integer
\* level between 1 and 100, and an absent section gives the default class
\* at level 1 with no ascendancy and no league.
C28_LevelInRange ==
  IsSome(ret) =>
    /\ ~Get(ret).level.nan
    /\ Get(ret).level.n \in 1..100
    /\ ~IsSome(Get(arg)) =>
         Get(ret) = [class |-> "Witch", ascendancy |-> None, level |-> Num(1), league |-> None]

\* the same for every section whose level text, if any, begins with digits
C28_LevelInRangeOfReadableLevels ==
  (IsSome(ret) /\ ParseLevel(IF IsSome(Get(arg)) THEN Get(Get(arg)).level ELSE NoLevel).nan = FALSE
               /\ (IsSome(Get(arg)) /\ FalsyLevel(Get(Get(arg)).level) /\ IsSome(Get(Get(arg)).MainSocket)
                     => ~ParseLevel(Get(Get(Get(arg)).MainSocket).level).nan)) =>
    /\ ~Get(ret).level.nan
    /\ Get(ret).level.n \in 1..100

\* a level above 100 was clamped
C28_ClampedReached ==
  /\ IsSome(ret) /\ IsSome(Get(arg))
  /\ Get(Get(arg)).level = [kind |-> "number", n |-> 150]
  /\ Get(ret).level = Num(100)

(***************************************************************************)
(* The parse handler under a clock with inputs that fail at each stage:    *)
(* encoding, decompression, structure (unparsable text, no root element)   *)
(* and version (too old, missing), next to inputs that parse.              *)
(***************************************************************************)
FailureInputs ==
  CacheInputs \cup
    {Code(GoodText, ZlibFramed(TextOf(XmlError))),
     Code(GoodText, RawFramed(TextOf(XmlOf(None)))),
     Code(GoodText, ZlibFramed(TextOf(XmlOf(Some(BareDoc(None))))))}

ParseCallOfAny == /\ \E x \in FailureInputs : Parse(x)
                  /\ UNCHANGED <<pureVars, sessionVars, cacheVars, requestVars>>

NextFailures == ParseCallOfAny \/ Tick

SpecFailures == Init /\ [][NextFailures]_vars

\* the input passes encoding, decompression, structure and the version gate
PassesEveryStage(x) ==
  /\ decodeBase64(x).ok
  /\ decompressWithFallback(decodeBase64(x).val).ok
  /\ parsePoBXML(x).ok
  /\ ~VersionMissing(parsePoBXML(x).val)
  /\ ~VersionBelowMinimum(Get(parsePoBXML(x).val.version))

ErrorCodeOf(r) == Get(r.error).code

\* the response a parse of x gives when it runs the pipeline at time t
ResponseOfPipeline(x, data, t) ==
  LET p == Pipeline(x, data, t) IN
  IF p.result.ok THEN SuccessResponse(p.result.val) ELSE wrapError(p.result.err)

\* the step is a parse call that failed
FailedParseStep ==
  /\ now' = now
  /\ IsSome(response') /\ ~Get(response').success

\* no entry was added, replaced or removed
CacheAsItWas == buildCache' = buildCache

\* every entry is the build of an input that passed every stage
OnlyBuildsThatPassed ==
  \A i \in 1..Len(buildCache) :
    \E x \in FailureInputs :
      /\ buildCache[i].key = generateCacheKey(x)
      /\ PassesEveryStage(x)
      /\ buildCache[i].value.version = Get(parsePoBXML(x).val.version)

\* an input that does not pass every stage is not in the cache, and a
\* parse of it now runs the pipeline and fails with the code it failed
\* with on a fresh process
FailsAgainTheSame ==
  \A x \in FailureInputs :
    ~PassesEveryStage(x) =>
      /\ ~IsSome(getCachedBuild(buildCache, x, now).value)
      /\ ~ResponseOfPipeline(x, keystonesData, now).success
      /\ ErrorCodeOf(ResponseOfPipeline(x, keystonesData, now))
           = ErrorCodeOf(ResponseOfPipeline(x, <<>>, 1))

\* a failure response is that of the last input, which ran the pipeline
FailureIsOfPipeline ==
  (IsSome(response) /\ ~Get(response).success) =>
    /\ ~PassesEveryStage(Get(lastInput))
    /\ ran # {}
    /\ ErrorCodeOf(Get(response))
         = ErrorCodeOf(ResponseOfPipeline(Get(lastInput), keystonesData, now))

\* C29: a failing parse leaves the cache as it was; the cache holds only
\* builds of inputs that passed every stage, the version gate included;
\* a failed input is not in the cache, so parsing it again runs the
\* pipeline, which fails with the same code.
C29_FailureLeavesCache ==
  /\ [][FailedParseStep => CacheAsItWas]_vars
  /\ [](OnlyBuildsThatPassed /\ FailsAgainTheSame /\ FailureIsOfPipeline)

\* a parse stopped by the version gate while the cache was full, one of
\* its entries stale
C29_Witness ==
  /\ IsSome(response) /\ ~Get(response).success
  /\ ErrorCodeOf(Get(response)) = UNSUPPORTED_VERSION
  /\ Len(buildCache) = CACHE_MAX_SIZE
  /\ \E i \in 1..Len(buildCache) : IsStale(buildCache[i], now)

\* a parse stopped at the structure stage with an entry in the cache
C29_StructureWitness ==
  /\ IsSome(response) /\ ~Get(response).success
  /\ ran = {"Decoder", "StructuralParser"}
  /\ Len(buildCache) > 0

(***************************************************************************)
(* What the aggregator returns against what the four suggesters emitted.   *)
(***************************************************************************)
\* the candidates of the four suggesters, each suggester called on its own
Candidates(build, analysis) ==
  Range(suggestGemImprovements(build, analysis))
    \cup Range(suggestPassiveImprovements(build, analysis))
    \cup Range(suggestGearImprovements(build, analysis))
    \cup Range(suggestUtilityImprovements(build, analysis))

\* the same suggestion but for its priority, with the same fields
SameButPriority(s, candidate) ==
  /\ DOMAIN s = DOMAIN candidate
  /\ \A f \in DOMAIN s \ {"priority"} : s[f] = candidate[f]

\* no rewrite, or one: to critical, or from important to optional
AtMostOneRewrite(from, to) ==
  \/ to = from
  \/ to = "critical"
  \/ from = "important" /\ to = "optional"

\* C30: every suggestion returned is a candidate of one of the four
\* suggesters with the same category, description, action and expected
\* impact and a priority at most one rewrite away, no candidate is returned
\* twice, and the call leaves the build and the analysis as they were.
C30_OnlyPriorityAltered ==
  /\ [](IsSome(ret) =>
          LET returned == Get(ret)
              candidates == Candidates(Get(arg).build, Get(arg).analysis)
          IN /\ \A i \in 1..Len(returned) :
                  \E c \in candidates :
                    /\ SameButPriority(returned[i], c)
                    /\ AtMostOneRewrite(c.priority, returned[i].priority)
             /\ \A i, j \in 1..Len(returned) :
                  (i # j) => ~SameButPriority(returned[i], returned[j]))
  /\ [][IsSome(ret') => arg' = arg]_vars

\* a list returned with a rewritten priority and with an untouched one
C30_Witness ==
  /\ IsSome(ret)
  /\ LET returned == Get(ret)
         candidates == Candidates(Get(arg).build, Get(arg).analysis)
     IN /\ \E i \in 1..Len(returned) : returned[i] \notin candidates
        /\ \E i \in 1..Len(returned) : returned[i] \in candidates
        /\ Len(returned) < Cardinality(candidates)

====
